---- MODULE Spec2Model ----
(***************************************************************************)
(* A model of the ulog logging library (include/ulog/ulog.h): LogLevel,   *)
(* LogEntry, LogBuffer, Logger, ObserverScope and LoggerRegistry, with    *)
(* the TestObserver of tests/test_observer.cpp as the observer.           *)
(*                                                                         *)
(* Strings are sequences of byte values.  Mutexes hold 0 when free and    *)
(* the owning thread's number when locked.                                 *)
(***************************************************************************)
EXTENDS Integers, Sequences, FiniteSets, TLC

(* ------------------------------ bounds -------------------------------- *)

\* Calls made in one behaviour of the single-threaded specification.
MaxOps == 3
\* Largest capacity passed to enable_buffer.
MaxCapacity == 2
\* Calls made in one behaviour of the buffer specification.
MaxBufOps == 5
\* Calls each logging thread makes in the concurrent specifications.
MaxCalls == 2

(* ------------------------------ LogLevel ------------------------------ *)

OFF == -1
TRACE == 0
DEBUG == 1
INFO == 2
WARN == 3
ERROR == 4
FATAL == 5

\* The levels a message can carry (one method of Logger each).
MsgLevels == {TRACE, DEBUG, INFO, WARN, ERROR, FATAL}
\* The values of the threshold.
LogLevels == {OFF} \cup MsgLevels

to_string(level) ==
    CASE level = OFF -> "OFF"
      [] level = TRACE -> "TRACE"
      [] level = DEBUG -> "DEBUG"
      [] level = INFO -> "INFO"
      [] level = WARN -> "WARN"
      [] level = ERROR -> "ERROR"
      [] level = FATAL -> "FATAL"
      [] OTHER -> "UNKNOWN"

(* ------------------------------ inputs -------------------------------- *)

\* The empty unique_ptr<LogBuffer>: no object has number 0.
NULL == [id |-> 0, capacity_ |-> 0, entries_ |-> <<>>, mutex_ |-> 0]

\* The name of the logger under test, and the observer handles callers hold.
name_ == "app"
Handles == {"A", "B"}

\* Format strings passed to the level methods: "a" and "\tb".
Templates == {<<97>>, <<9, 98>>}
\* What the supplier thunk returns: "c".
SupplierResults == {<<99>>}

\* What is written to std::cout, one insertion each: a formatted line, the
\* "\n" after it, or the std::endl of flush.
Chunk(kind, text) == [kind |-> kind, text |-> text]

(* ------------------------------ LogEntry ------------------------------ *)

LogEntry(ts, lvl, name, msg) ==
    [timestamp |-> ts, level |-> lvl, logger_name |-> name, message |-> msg]

\* The line's segments: time, [LEVEL], [logger_name] unless empty, message.
formatted_message(entry) ==
    <<entry.timestamp, to_string(entry.level),
      IF entry.logger_name = "" THEN <<>> ELSE <<entry.logger_name>>,
      entry.message>>

(* ------------------------------ LogBuffer ----------------------------- *)

LogBuffer(id, capacity) ==
    [id |-> id, capacity_ |-> capacity, entries_ |-> <<>>, mutex_ |-> 0]

\* The test with > for >=: the buffer grows to capacity + 1.
LogBuffer_full_OneLate(buf) == buf.capacity_ > 0 /\ Len(buf.entries_) > buf.capacity_

\* The test without capacity_ > 0: capacity 0 is taken as a bound too.
LogBuffer_full_NoUnbounded(buf) == Len(buf.entries_) > buf.capacity_

\* The test of LogBuffer::add that decides whether the oldest entry goes.
LogBuffer_full(buf) == buf.capacity_ > 0 /\ Len(buf.entries_) >= buf.capacity_

\* The eviction taking the newest entry instead of the oldest.
LogBuffer_erase_back(buf) ==
    [buf EXCEPT !.entries_ = SubSeq(@, 1, Len(@) - 1)]

LogBuffer_erase_begin(buf) == [buf EXCEPT !.entries_ = Tail(@)]

\* The entry put in front of the others.
LogBuffer_push_back_Front(buf, entry) ==
    [buf EXCEPT !.entries_ = <<entry>> \o @]

LogBuffer_push_back(buf, entry) == [buf EXCEPT !.entries_ = Append(@, entry)]

LogBuffer_add(buf, entry) ==
    LogBuffer_push_back(
        IF LogBuffer_full(buf) THEN LogBuffer_erase_begin(buf) ELSE buf, entry)

\* A clear that also forgets the capacity.
LogBuffer_clear_ResetsCapacity(buf) == [buf EXCEPT !.entries_ = <<>>, !.capacity_ = 0]

LogBuffer_clear(buf) == [buf EXCEPT !.entries_ = <<>>]

LogBuffer_size(buf) == Len(buf.entries_)

LogBuffer_empty(buf) == buf.entries_ = <<>>

(* --------------------------- message cleaning ------------------------- *)

HexDigit(d) == IF d < 10 THEN 48 + d ELSE 55 + d

\* "\x" and the value as two uppercase hex digits.
char_to_hex(ch) == <<92, 120, HexDigit(ch \div 16), HexDigit(ch % 16)>>

SubStr(s, i, n) == SubSeq(s, i, i + n - 1)

\* The five characters clean_message turns into a space: \t \n \r \v \f.
IsWhitespaceControl(ch) == ch \in {9, 10, 13, 11, 12}

\* Only the two-byte lead bytes are known.
Utf8Trail_TwoByteOnly(ch) == IF ch \div 32 = 6 THEN 1 ELSE -1

\* Bytes a lead byte announces after itself: 1, 2, 3, or -1 for a byte that
\* starts no sequence (ch & 0xE0 == 0xC0, ch & 0xF0 == 0xE0, ch & 0xF8 == 0xF0).
Utf8Trail(ch) ==
    IF ch \div 32 = 6 THEN 1
    ELSE IF ch \div 16 = 14 THEN 2
    ELSE IF ch \div 8 = 30 THEN 3
    ELSE -1

RECURSIVE clean_from(_, _)
\* The loop of clean_message from index i (1-based) to the end.
clean_from(message, i) ==
    IF i > Len(message) THEN <<>>
    ELSE LET ch == message[i] IN
        IF ch >= 128 THEN
            IF Utf8Trail(ch) > 0 /\ i + Utf8Trail(ch) <= Len(message)
            THEN SubStr(message, i, Utf8Trail(ch) + 1)
                     \o clean_from(message, i + Utf8Trail(ch) + 1)
            ELSE char_to_hex(ch) \o clean_from(message, i + 1)
        ELSE IF ch < 32 THEN
            IF IsWhitespaceControl(ch)
            THEN <<32>> \o clean_from(message, i + 1)
            ELSE char_to_hex(ch) \o clean_from(message, i + 1)
        ELSE <<ch>> \o clean_from(message, i + 1)

clean_message(message) == clean_from(message, 1)

(* --------------------------- MessageFormatter: strings ---------------- *)

\* Positions in strings count from 0, as in C++.

\* std::string::npos, what find returns when there is no match.
npos == -1

RECURSIVE std_to_string(_)
\* std::to_string of a size_t: its decimal digits.
std_to_string(n) ==
    IF n < 10 THEN <<48 + n>> ELSE std_to_string(n \div 10) \o <<48 + (n % 10)>>

\* An argument of format: a string, or an integer.
StringArg(text) == [type |-> "string", value |-> text]
IntArg(n) == [type |-> "int", value |-> n]

\* ustr::to_string: a string as it is, an integer through operator<<.
ustr_to_string(arg) ==
    IF arg.type = "int" THEN std_to_string(arg.value) ELSE arg.value

\* The {?} of the anonymous pass.
anonymous_placeholder == <<123, 63, 125>>

\* The placeholder counted from 1.
placeholder_OneBased(i) == <<123>> \o std_to_string(i + 1) \o <<125>>

\* "{" + std::to_string(i) + "}"
placeholder(i) == <<123>> \o std_to_string(i) \o <<125>>

\* s.find(sub, pos): the first position >= pos where sub occurs, or npos.
string_find(s, sub, pos) ==
    LET at == {p \in pos..(Len(s) - Len(sub)) : SubSeq(s, p + 1, p + Len(sub)) = sub}
    IN  IF at = {} THEN npos ELSE CHOOSE p \in at : \A q \in at : p <= q

\* s.replace(pos, n, text): n characters from pos give way to text.
string_replace(s, pos, n, text) ==
    SubSeq(s, 1, pos) \o text \o SubSeq(s, pos + n + 1, Len(s))

\* The last argument is never handed out.
anonymous_continues_OneShort(found, arg_index, args) ==
    found # npos /\ arg_index + 1 < Len(args)

\* The condition of the anonymous loop, with found the value find returned.
anonymous_continues(found, arg_index, args) ==
    found # npos /\ arg_index < Len(args)

\* The scan for a positional placeholder going on from where the
\* anonymous pass stopped.
positional_start_Stale(pos) == IF pos = npos THEN 0 ELSE pos

\* pos = 0 at the start of each positional scan.
positional_start(pos) == 0

(* ------------------------------ state --------------------------------- *)

VARIABLES
    \* Logger members
    log_level_, console_enabled_, buffer_enabled_, clean_message_,
    buffer_, observers_,
    \* the world outside the logger: std::cout, the clock, the heap's next
    \* object number, what each TestObserver recorded (one global sequence of
    \* callback invocations), how often the supplier thunk ran
    console, clock, next_id, callbacks, thunk_calls,
    \* Logger's mutexes: mutex_, console_mutex_, buffer_mutex_, observers_mutex_
    mutexes,
    \* LoggerRegistry members, and the references get_logger handed out
    loggers_, registry_mutex_, returned,
    \* the Logger objects the registry made, by object number, and how often
    \* a factory passed to get_logger ran
    heap, factory_calls,
    \* threads: where each one is, its local variables, the calls it has made
    pc, loc, issued,
    \* the most recent call, the number of calls made, and the entries that
    \* passed the gate since the buffer was last created or cleared
    last, nops, accepted,
    \* the AutoFlushingScope objects alive on the caller's stack, innermost
    \* last, by object number
    scopes

logger_vars == <<log_level_, console_enabled_, buffer_enabled_, clean_message_,
                 buffer_, observers_>>
world_vars == <<console, clock, next_id, callbacks, thunk_calls>>
registry_vars == <<loggers_, registry_mutex_, returned, heap, factory_calls>>
thread_vars == <<pc, loc, issued>>
history_vars == <<last, nops, accepted>>
caller_vars == <<history_vars, scopes>>
vars == <<logger_vars, world_vars, mutexes, registry_vars, thread_vars,
          caller_vars>>

Threads == {1, 2}
\* Names looked up in the registry; the empty name is the global logger.
Names == {"", "app"}

\* A constructor that starts at DEBUG with the console off.
Logger_DebugSilent(name) ==
    [name_ |-> name, console_enabled_ |-> FALSE, buffer_enabled_ |-> FALSE,
     log_level_ |-> DEBUG, clean_message_ |-> TRUE, buffer_ |-> NULL,
     observers_ |-> <<>>]

\* A Logger that starts with every level let through.
Logger_StartsAtTrace(name) ==
    [name_ |-> name, console_enabled_ |-> TRUE, buffer_enabled_ |-> FALSE,
     log_level_ |-> TRACE, clean_message_ |-> TRUE, buffer_ |-> NULL,
     observers_ |-> <<>>]

\* Logger::Logger: the members of a newly constructed Logger.
Logger(name) ==
    [name_ |-> name, console_enabled_ |-> TRUE, buffer_enabled_ |-> FALSE,
     log_level_ |-> INFO, clean_message_ |-> TRUE, buffer_ |-> NULL,
     observers_ |-> <<>>]

\* The logger under test is a newly constructed Logger(name_).
LoggerInit ==
    /\ console_enabled_ = Logger(name_).console_enabled_
    /\ buffer_enabled_ = Logger(name_).buffer_enabled_
    /\ log_level_ = Logger(name_).log_level_
    /\ clean_message_ = Logger(name_).clean_message_
    /\ buffer_ = Logger(name_).buffer_
    /\ observers_ = Logger(name_).observers_

WorldInit ==
    /\ console = <<>>
    /\ clock = 0
    /\ next_id = 1
    /\ callbacks = <<>>
    /\ thunk_calls = 0

MutexesInit ==
    mutexes = [mutex_ |-> 0, console_mutex_ |-> 0, buffer_mutex_ |-> 0,
               observers_mutex_ |-> 0]

\* LoggerRegistry::LoggerRegistry: an empty map (0 stands for no element).
RegistryInit ==
    /\ loggers_ = [name \in Names |-> 0]
    /\ registry_mutex_ = 0
    /\ returned = <<>>
    /\ heap = <<>>
    /\ factory_calls = 0

\* A thread's local variables in Logger::log, add_observer, remove_observer,
\* LoggerRegistry::get_logger and MessageFormatter::format, before it has
\* set any.
Locals ==
    [level |-> OFF, format |-> <<>>, entry |-> LogEntry(0, OFF, "", <<>>),
     i |-> 0, observer |-> "", it |-> 0, name |-> "",
     args |-> <<>>, result |-> <<>>, pos |-> 0, arg_index |-> 0, buf |-> 0]

ThreadsInit ==
    /\ pc = [t \in Threads |-> "idle"]
    /\ loc = [t \in Threads |-> Locals]
    /\ issued = [t \in Threads |-> <<>>]

GhostInit ==
    /\ last = [op |-> "none"]
    /\ nops = 0
    /\ accepted = <<>>

\* No AutoFlushingScope has been constructed.
ScopesInit == scopes = <<>>

Init ==
    /\ LoggerInit
    /\ WorldInit
    /\ MutexesInit
    /\ RegistryInit
    /\ ThreadsInit
    /\ GhostInit
    /\ ScopesInit

(* --------------------------- Logger, one call at a time --------------- *)

\* The gate with <= for <: a message at the threshold itself is dropped.
GateRejects_AtThreshold(level, current_level) ==
    current_level = OFF \/ level <= current_level

\* The gate without the test for OFF.
GateRejects_IgnoresOff(level, current_level) == level < current_level

\* The early return of Logger::log.
GateRejects(level, current_level) == current_level = OFF \/ level < current_level

\* One TestObserver callback: the observer records what it was handed, a
\* LogEntry or [logger_name |-> the name].
Callback(h, kind, arg) == [observer |-> h, kind |-> kind, arg |-> arg]

\* The loop started at the second observer.
notify_observers_SkipsFirst(obs, kind, arg) ==
    [i \in 1..(Len(obs) - 1) |-> Callback(obs[i + 1], kind, arg)]

\* The loop run from the back of the vector.
notify_observers_Backwards(obs, kind, arg) ==
    [i \in 1..Len(obs) |-> Callback(obs[Len(obs) + 1 - i], kind, arg)]

RECURSIVE notify_observers(_, _, _)
\* The loop of notify_observers_message / notify_observers_flush over obs.
notify_observers(obs, kind, arg) ==
    IF obs = <<>> THEN <<>>
    ELSE <<Callback(Head(obs), kind, arg)>> \o notify_observers(Tail(obs), kind, arg)

\* The observers handed the message as the caller wrote it.
Emit_ObserversGetRaw(level, message) ==
    LET cleaned == IF clean_message_ THEN clean_message(message) ELSE message
        entry == LogEntry(clock, level, name_, cleaned)
    IN  /\ clock' = clock + 1
        /\ accepted' = Append(accepted, entry)
        /\ console' = IF console_enabled_
                      THEN console \o <<Chunk("line", formatted_message(entry)),
                                        Chunk("\n", <<>>)>>
                      ELSE console
        /\ buffer_' = IF buffer_enabled_ /\ buffer_ # NULL
                      THEN LogBuffer_add(buffer_, entry)
                      ELSE buffer_
        /\ callbacks' = callbacks \o notify_observers(observers_, "handleNewMessage",
                                                      LogEntry(clock, level, name_, message))

\* Everything Logger::log does after the gate let the call through.
Emit(level, message) ==
    LET cleaned == IF clean_message_ THEN clean_message(message) ELSE message
        entry == LogEntry(clock, level, name_, cleaned)
    IN  /\ clock' = clock + 1
        /\ accepted' = Append(accepted, entry)
        /\ console' = IF console_enabled_
                      THEN console \o <<Chunk("line", formatted_message(entry)),
                                        Chunk("\n", <<>>)>>
                      ELSE console
        /\ buffer_' = IF buffer_enabled_ /\ buffer_ # NULL
                      THEN LogBuffer_add(buffer_, entry)
                      ELSE buffer_
        /\ callbacks' = callbacks \o notify_observers(observers_, "handleNewMessage", entry)

\* trace / debug / info / warn / error / fatal with no arguments:
\* MessageFormatter::format(format) returns the format string.
log(level, format) ==
    /\ last' = [op |-> "log", level |-> level, format |-> format]
    /\ IF GateRejects(level, log_level_)
       THEN UNCHANGED <<clock, console, buffer_, callbacks, accepted>>
       ELSE Emit(level, format)
    /\ UNCHANGED <<log_level_, console_enabled_, buffer_enabled_, clean_message_,
                   observers_, next_id, thunk_calls>>

\* <level>_supplier(thunk): the thunk runs only past the gate and returns
\* the message.
log_supplier(level, result) ==
    /\ last' = [op |-> "log_supplier", level |-> level, format |-> result]
    /\ IF GateRejects(level, log_level_)
       THEN UNCHANGED <<clock, console, buffer_, callbacks, thunk_calls, accepted>>
       ELSE /\ thunk_calls' = thunk_calls + 1
            /\ Emit(level, result)
    /\ UNCHANGED <<log_level_, console_enabled_, buffer_enabled_, clean_message_,
                   observers_, next_id>>

\* The new buffer taking over the entries of the one it replaces.
enable_buffer_KeepsEntries(capacity) ==
    /\ last' = [op |-> "enable_buffer", capacity |-> capacity]
    /\ buffer_enabled_' = TRUE
    /\ buffer_' = [LogBuffer(next_id, capacity) EXCEPT !.entries_ = buffer_.entries_]
    /\ next_id' = next_id + 1
    /\ accepted' = <<>>
    /\ UNCHANGED <<log_level_, console_enabled_, clean_message_, observers_,
                   console, clock, callbacks, thunk_calls>>

enable_buffer(capacity) ==
    /\ last' = [op |-> "enable_buffer", capacity |-> capacity]
    /\ buffer_enabled_' = TRUE
    /\ buffer_' = LogBuffer(next_id, capacity)
    /\ next_id' = next_id + 1
    /\ accepted' = <<>>
    /\ UNCHANGED <<log_level_, console_enabled_, clean_message_, observers_,
                   console, clock, callbacks, thunk_calls>>

disable_buffer ==
    /\ last' = [op |-> "disable_buffer"]
    /\ buffer_enabled_' = FALSE
    /\ buffer_' = NULL
    /\ accepted' = <<>>
    /\ UNCHANGED <<log_level_, console_enabled_, clean_message_, observers_, world_vars>>

clear_buffer ==
    /\ last' = [op |-> "clear_buffer", size |-> LogBuffer_size(buffer_)]
    /\ buffer_' = IF buffer_ # NULL THEN LogBuffer_clear(buffer_) ELSE buffer_
    /\ accepted' = <<>>
    /\ UNCHANGED <<log_level_, console_enabled_, buffer_enabled_, clean_message_,
                   observers_, world_vars>>

enable_console ==
    /\ UNCHANGED accepted
    /\ last' = [op |-> "enable_console"]
    /\ console_enabled_' = TRUE
    /\ UNCHANGED <<log_level_, buffer_enabled_, clean_message_, buffer_, observers_,
                   world_vars>>

disable_console ==
    /\ UNCHANGED accepted
    /\ last' = [op |-> "disable_console"]
    /\ console_enabled_' = FALSE
    /\ UNCHANGED <<log_level_, buffer_enabled_, clean_message_, buffer_, observers_,
                   world_vars>>

\* A flush that writes std::endl whether or not the console is enabled.
flush_IgnoresConsoleFlag ==
    /\ UNCHANGED accepted
    /\ last' = [op |-> "flush"]
    /\ console' = Append(console, Chunk("endl", <<>>))
    /\ callbacks' = callbacks \o notify_observers(observers_, "handleFlush", [logger_name |-> name_])
    /\ UNCHANGED <<logger_vars, clock, next_id, thunk_calls>>

\* Logger::buffer: the LogBuffer, or NULL.
buffer == buffer_

flush ==
    /\ UNCHANGED accepted
    /\ last' = [op |-> "flush"]
    /\ console' = IF console_enabled_ THEN Append(console, Chunk("endl", <<>>)) ELSE console
    /\ callbacks' = callbacks \o notify_observers(observers_, "handleFlush", [logger_name |-> name_])
    /\ UNCHANGED <<logger_vars, clock, next_id, thunk_calls>>

add_observer(observer) ==
    /\ UNCHANGED accepted
    /\ last' = [op |-> "add_observer", observer |-> observer]
    /\ observers_' = Append(observers_, observer)
    /\ callbacks' = Append(callbacks, Callback(observer, "handleRegistered", [logger_name |-> name_]))
    /\ UNCHANGED <<log_level_, console_enabled_, buffer_enabled_, clean_message_,
                   buffer_, console, clock, next_id, thunk_calls>>

\* A search that returns the last occurrence.
find_Last(obs, observer) ==
    IF \E i \in 1..Len(obs) : obs[i] = observer
    THEN CHOOSE i \in 1..Len(obs) :
             obs[i] = observer /\ \A j \in (i + 1)..Len(obs) : obs[j] # observer
    ELSE 0

\* std::find: the index of the first occurrence, or 0 for end().
find(obs, observer) ==
    IF \E i \in 1..Len(obs) : obs[i] = observer
    THEN CHOOSE i \in 1..Len(obs) :
             obs[i] = observer /\ \A j \in 1..(i - 1) : obs[j] # observer
    ELSE 0

\* vector::erase at index i.
erase(obs, i) == SubSeq(obs, 1, i - 1) \o SubSeq(obs, i + 1, Len(obs))

remove_observer(observer) ==
    /\ UNCHANGED accepted
    /\ last' = [op |-> "remove_observer", observer |-> observer]
    /\ LET it == find(observers_, observer) IN
        IF it # 0
        THEN /\ callbacks' = Append(callbacks,
                                    Callback(observers_[it], "handleUnregistered",
                                             [logger_name |-> name_]))
             /\ observers_' = erase(observers_, it)
        ELSE UNCHANGED <<callbacks, observers_>>
    /\ UNCHANGED <<log_level_, console_enabled_, buffer_enabled_, clean_message_,
                   buffer_, console, clock, next_id, thunk_calls>>

\* A setter that only ever raises the threshold.
set_log_level_NeverLowers(level) ==
    /\ UNCHANGED accepted
    /\ last' = [op |-> "set_log_level", level |-> level]
    /\ log_level_' = IF level < log_level_ THEN log_level_ ELSE level
    /\ UNCHANGED <<console_enabled_, buffer_enabled_, clean_message_, buffer_,
                   observers_, world_vars>>

set_log_level(level) ==
    /\ UNCHANGED accepted
    /\ last' = [op |-> "set_log_level", level |-> level]
    /\ log_level_' = level
    /\ UNCHANGED <<console_enabled_, buffer_enabled_, clean_message_, buffer_,
                   observers_, world_vars>>

\* Logger::get_log_level.
get_log_level == log_level_

enable_clean_message ==
    /\ UNCHANGED accepted
    /\ last' = [op |-> "enable_clean_message"]
    /\ clean_message_' = TRUE
    /\ UNCHANGED <<log_level_, console_enabled_, buffer_enabled_, buffer_,
                   observers_, world_vars>>

disable_clean_message ==
    /\ UNCHANGED accepted
    /\ last' = [op |-> "disable_clean_message"]
    /\ clean_message_' = FALSE
    /\ UNCHANGED <<log_level_, console_enabled_, buffer_enabled_, buffer_,
                   observers_, world_vars>>

\* One call on the logger by its only thread, which holds no mutex between
\* calls.
Sequential(call) ==
    /\ nops < MaxOps
    /\ nops' = nops + 1
    /\ call
    /\ UNCHANGED <<mutexes, registry_vars, thread_vars, scopes>>

Next ==
    \/ \E level \in MsgLevels, format \in Templates : Sequential(log(level, format))
    \/ \E level \in MsgLevels, result \in SupplierResults :
           Sequential(log_supplier(level, result))
    \/ \E capacity \in 0..MaxCapacity : Sequential(enable_buffer(capacity))
    \/ Sequential(disable_buffer)
    \/ Sequential(clear_buffer)
    \/ Sequential(enable_console)
    \/ Sequential(disable_console)
    \/ Sequential(flush)
    \/ \E observer \in Handles : Sequential(add_observer(observer))
    \/ \E observer \in Handles : Sequential(remove_observer(observer))
    \/ \E level \in LogLevels : Sequential(set_log_level(level))
    \/ Sequential(enable_clean_message)
    \/ Sequential(disable_clean_message)

Spec == Init /\ [][Next]_vars

(* --------------------------- flushing and AutoFlushingScope ----------- *)

\* Calls made in one behaviour of the flush specification.
MaxFlushOps == 5

\* AutoFlushingScope::AutoFlushingScope: the scope object, on the logger
\* under test, becomes the innermost one.
AutoFlushingScope ==
    /\ last' = [op |-> "AutoFlushingScope"]
    /\ scopes' = Append(scopes, next_id)
    /\ next_id' = next_id + 1
    /\ UNCHANGED <<logger_vars, console, clock, callbacks, thunk_calls, accepted>>

\* AutoFlushingScope::~AutoFlushingScope: the innermost scope ends (objects
\* of enclosing blocks are destroyed later) and flushes the logger.
AutoFlushingScope_destructor ==
    /\ scopes # <<>>
    /\ scopes' = SubSeq(scopes, 1, Len(scopes) - 1)
    /\ flush

\* One call in the flush specification that is no scope's begin or end.
FlushCall(call) ==
    /\ nops < MaxFlushOps
    /\ nops' = nops + 1
    /\ call
    /\ UNCHANGED <<mutexes, registry_vars, thread_vars, scopes>>

\* A scope's begin or end.
ScopeCall(call) ==
    /\ nops < MaxFlushOps
    /\ nops' = nops + 1
    /\ call
    /\ UNCHANGED <<mutexes, registry_vars, thread_vars>>

NextFlush ==
    \/ FlushCall(flush)
    \/ ScopeCall(AutoFlushingScope)
    \/ ScopeCall(AutoFlushingScope_destructor)
    \/ \E format \in Templates : FlushCall(log(INFO, format))
    \/ \E observer \in Handles : FlushCall(add_observer(observer))
    \/ \E observer \in Handles : FlushCall(remove_observer(observer))
    \/ FlushCall(disable_console)
    \/ FlushCall(enable_console)
    \/ \E capacity \in 0..MaxCapacity : FlushCall(enable_buffer(capacity))

SpecFlush == Init /\ [][NextFlush]_vars

(* --------------------------- the buffer, one call at a time ----------- *)

\* Levels logged in the buffer specification: one the default threshold
\* rejects and one it accepts.
BufferLevels == {DEBUG, INFO}

BufferCall(call) ==
    /\ nops < MaxBufOps
    /\ nops' = nops + 1
    /\ call
    /\ UNCHANGED <<mutexes, registry_vars, thread_vars, scopes>>

\* A single thread enabling, filling, clearing and disabling the buffer.
NextBuffer ==
    \/ \E level \in BufferLevels, format \in Templates : BufferCall(log(level, format))
    \/ \E capacity \in 0..MaxCapacity : BufferCall(enable_buffer(capacity))
    \/ BufferCall(clear_buffer)
    \/ BufferCall(disable_buffer)

SpecBuffer == Init /\ [][NextBuffer]_vars

(* --------------------------- Logger, one step at a time --------------- *)

\* In the concurrent specifications a thread takes one step per access to
\* shared state; a mutex is released together with the last access it
\* guards.

\* The lock_guard compiled out, as with ULOG_USE_MUTEX_FOR_OBSERVERS 0: the
\* thread goes on without the mutex.
lock_guard_Absent(m, t) == mutexes' = mutexes

\* std::lock_guard on one of Logger's mutexes: waits until it is free.
lock_guard(m, t) ==
    /\ mutexes[m] = 0
    /\ mutexes' = [mutexes EXCEPT ![m] = t]

\* The end of the lock_guard's scope.
unlock(m) == mutexes' = [mutexes EXCEPT ![m] = 0]

\* std::lock_guard on LogBuffer::mutex_.
LogBuffer_lock(buf, t) == [buf EXCEPT !.mutex_ = t]

LogBuffer_unlock(buf) == [buf EXCEPT !.mutex_ = 0]

Goto(t, label) == pc' = [pc EXCEPT ![t] = label]

\* Thread t makes one more call, if it has calls left.
Issue(t, call) ==
    /\ pc[t] = "idle"
    /\ Len(issued[t]) < MaxCalls
    /\ issued' = [issued EXCEPT ![t] = Append(@, call)]

\* The text the j-th call of thread t logs ("t<t>m<j>"), as the threads of
\* the ThreadSafety tests log "Thread <i> message <j>".
ThreadMessage(t, j) == <<116, 48 + t, 109, 48 + j>>

\* Logger::log, lines 657-660: the call and its gate.  A rejected call
\* returns at once.
log_gate(t, level) ==
    /\ Issue(t, [op |-> "log", level |-> level, arg |-> ""])
    /\ loc' = [loc EXCEPT ![t] = [Locals EXCEPT !.level = level,
                   !.format = ThreadMessage(t, Len(issued[t]) + 1)]]
    /\ IF GateRejects(level, log_level_) THEN Goto(t, "idle") ELSE Goto(t, "log_format")
    /\ UNCHANGED <<logger_vars, world_vars, mutexes, registry_vars, caller_vars>>

\* Lines 662-669: the message, cleaned if clean_message_ is set, and the
\* entry with the current time.
log_format(t) ==
    /\ pc[t] = "log_format"
    /\ LET message == loc[t].format
           cleaned == IF clean_message_ THEN clean_message(message) ELSE message
       IN  loc' = [loc EXCEPT ![t].entry = LogEntry(clock, loc[t].level, name_, cleaned)]
    /\ clock' = clock + 1
    /\ Goto(t, "log_console")
    /\ UNCHANGED <<logger_vars, console, next_id, callbacks, thunk_calls, mutexes,
                   registry_vars, issued, caller_vars>>

\* Line 672: if (console_enabled_).
log_console(t) ==
    /\ pc[t] = "log_console"
    /\ IF console_enabled_ THEN Goto(t, "console_lock") ELSE Goto(t, "log_buffer")
    /\ UNCHANGED <<logger_vars, world_vars, mutexes, registry_vars, loc, issued,
                   caller_vars>>

\* Line 674.
console_lock(t) ==
    /\ pc[t] = "console_lock"
    /\ lock_guard("console_mutex_", t)
    /\ Goto(t, "console_line")
    /\ UNCHANGED <<logger_vars, world_vars, registry_vars, loc, issued, caller_vars>>

\* Line 676, the first insertion: std::cout << entry.formatted_message().
console_line(t) ==
    /\ pc[t] = "console_line"
    /\ console' = Append(console, Chunk("line", formatted_message(loc[t].entry)))
    /\ Goto(t, "console_newline")
    /\ UNCHANGED <<logger_vars, clock, next_id, callbacks, thunk_calls, mutexes,
                   registry_vars, loc, issued, caller_vars>>

\* Line 676, the second insertion: << "\n"; line 677 ends the lock's scope.
console_newline(t) ==
    /\ pc[t] = "console_newline"
    /\ console' = Append(console, Chunk("\n", <<>>))
    /\ unlock("console_mutex_")
    /\ Goto(t, "log_buffer")
    /\ UNCHANGED <<logger_vars, clock, next_id, callbacks, thunk_calls,
                   registry_vars, loc, issued, caller_vars>>

\* The buffer section asking for the threshold again.
log_buffer_RereadsLevel(t) ==
    /\ pc[t] = "log_buffer"
    /\ IF buffer_enabled_ /\ buffer_ # NULL /\ ~GateRejects(loc[t].level, log_level_)
       THEN Goto(t, "buffer_lock")
       ELSE Goto(t, "observers_lock")
    /\ UNCHANGED <<logger_vars, world_vars, mutexes, registry_vars, loc, issued,
                   caller_vars>>

\* Line 680: if (buffer_enabled_ && buffer_).
log_buffer(t) ==
    /\ pc[t] = "log_buffer"
    /\ IF buffer_enabled_ /\ buffer_ # NULL
       THEN Goto(t, "buffer_lock")
       ELSE Goto(t, "observers_lock")
    /\ UNCHANGED <<logger_vars, world_vars, mutexes, registry_vars, loc, issued,
                   caller_vars>>

\* Line 682.
buffer_lock(t) ==
    /\ pc[t] = "buffer_lock"
    /\ lock_guard("buffer_mutex_", t)
    /\ Goto(t, "add_lock")
    /\ UNCHANGED <<logger_vars, world_vars, registry_vars, loc, issued, caller_vars>>

\* What a build may do with a call on a LogBuffer that is not there: stop
\* the process, or go on with the entry written nowhere.
UndefinedOutcomes == {"crash", "lost"}

\* buffer_->add(entry) through a null or dangling pointer: the thread either
\* never gets further, buffer_mutex_ still locked, or leaves the buffer
\* section without having stored the entry.
add_undefined(t) ==
    /\ \E outcome \in UndefinedOutcomes :
           IF outcome = "crash"
           THEN Goto(t, "crashed") /\ UNCHANGED mutexes
           ELSE Goto(t, "observers_lock") /\ unlock("buffer_mutex_")
    /\ UNCHANGED <<buffer_, loc>>

\* The LogBuffer thread t called add on is still the logger's buffer.
add_alive(t) == buffer_ # NULL /\ buffer_.id = loc[t].buf

\* Line 684, buffer_->add(entry), and LogBuffer::add, line 237: buffer_ is
\* read again, and the buffer it points to locks its mutex.
add_lock(t) ==
    /\ pc[t] = "add_lock"
    /\ IF buffer_ # NULL
       THEN /\ buffer_.mutex_ = 0
            /\ buffer_' = LogBuffer_lock(buffer_, t)
            /\ loc' = [loc EXCEPT ![t].buf = buffer_.id]
            /\ Goto(t, "add_evict")
            /\ UNCHANGED mutexes
       ELSE add_undefined(t)
    /\ UNCHANGED <<log_level_, console_enabled_, buffer_enabled_, clean_message_,
                   observers_, world_vars, registry_vars, issued, caller_vars>>

\* LogBuffer::add, lines 238-240.
add_evict(t) ==
    /\ pc[t] = "add_evict"
    /\ IF add_alive(t)
       THEN /\ buffer_' = IF LogBuffer_full(buffer_)
                          THEN LogBuffer_erase_begin(buffer_) ELSE buffer_
            /\ Goto(t, "add_push_back")
            /\ UNCHANGED <<mutexes, loc>>
       ELSE add_undefined(t)
    /\ UNCHANGED <<log_level_, console_enabled_, buffer_enabled_, clean_message_,
                   observers_, world_vars, registry_vars, issued, caller_vars>>

\* LogBuffer::add, lines 241-242, and line 685: the entry is stored and
\* both lock scopes end.
add_push_back(t) ==
    /\ pc[t] = "add_push_back"
    /\ IF add_alive(t)
       THEN /\ buffer_' = LogBuffer_unlock(LogBuffer_push_back(buffer_, loc[t].entry))
            /\ unlock("buffer_mutex_")
            /\ Goto(t, "observers_lock")
            /\ UNCHANGED loc
       ELSE add_undefined(t)
    /\ UNCHANGED <<log_level_, console_enabled_, buffer_enabled_, clean_message_,
                   observers_, world_vars, registry_vars, issued, caller_vars>>

\* Line 690.
observers_lock(t) ==
    /\ pc[t] = "observers_lock"
    /\ lock_guard("observers_mutex_", t)
    /\ loc' = [loc EXCEPT ![t].i = 1]
    /\ Goto(t, "notify")
    /\ UNCHANGED <<logger_vars, world_vars, registry_vars, issued, caller_vars>>

\* notify_observers_message, lines 697-699: one turn of the loop, or its
\* end, where line 693 ends the lock's scope and log returns.
notify(t) ==
    /\ pc[t] = "notify"
    /\ IF loc[t].i <= Len(observers_)
       THEN /\ callbacks' = Append(callbacks,
                   Callback(observers_[loc[t].i], "handleNewMessage", loc[t].entry))
            /\ loc' = [loc EXCEPT ![t].i = @ + 1]
            /\ UNCHANGED <<mutexes, pc>>
       ELSE /\ unlock("observers_mutex_")
            /\ Goto(t, "idle")
            /\ UNCHANGED <<callbacks, loc>>
    /\ UNCHANGED <<logger_vars, console, clock, next_id, thunk_calls, registry_vars,
                   issued, caller_vars>>

\* Logger::clear_buffer, line 452.
clear_lock(t) ==
    /\ Issue(t, [op |-> "clear_buffer", level |-> OFF, arg |-> ""])
    /\ lock_guard("mutex_", t)
    /\ Goto(t, "clear_check")
    /\ UNCHANGED <<logger_vars, world_vars, registry_vars, loc, caller_vars>>

\* Line 453: if (buffer_); without a buffer the call returns.
clear_check(t) ==
    /\ pc[t] = "clear_check"
    /\ IF buffer_ # NULL
       THEN Goto(t, "clear_buffer_lock") /\ UNCHANGED mutexes
       ELSE Goto(t, "idle") /\ unlock("mutex_")
    /\ UNCHANGED <<logger_vars, world_vars, registry_vars, loc, issued, caller_vars>>

\* LogBuffer::clear, line 248.
clear_buffer_lock(t) ==
    /\ pc[t] = "clear_buffer_lock"
    /\ buffer_.mutex_ = 0
    /\ buffer_' = LogBuffer_lock(buffer_, t)
    /\ Goto(t, "clear_entries")
    /\ UNCHANGED <<log_level_, console_enabled_, buffer_enabled_, clean_message_,
                   observers_, world_vars, mutexes, registry_vars, loc, issued,
                   caller_vars>>

\* LogBuffer::clear, lines 249-250, and line 456: both lock scopes end.
clear_entries(t) ==
    /\ pc[t] = "clear_entries"
    /\ buffer_' = LogBuffer_unlock(LogBuffer_clear(buffer_))
    /\ unlock("mutex_")
    /\ Goto(t, "idle")
    /\ UNCHANGED <<log_level_, console_enabled_, buffer_enabled_, clean_message_,
                   observers_, world_vars, registry_vars, loc, issued, caller_vars>>

\* Logger::add_observer, line 501 (also ObserverScope's constructor).
add_observer_lock(t, observer) ==
    /\ Issue(t, [op |-> "add_observer", level |-> OFF, arg |-> observer])
    /\ lock_guard("observers_mutex_", t)
    /\ loc' = [loc EXCEPT ![t] = [Locals EXCEPT !.observer = observer]]
    /\ Goto(t, "observers_push_back")
    /\ UNCHANGED <<logger_vars, world_vars, registry_vars, caller_vars>>

\* Line 503.
observers_push_back(t) ==
    /\ pc[t] = "observers_push_back"
    /\ observers_' = Append(observers_, loc[t].observer)
    /\ Goto(t, "handle_registered")
    /\ UNCHANGED <<log_level_, console_enabled_, buffer_enabled_, clean_message_,
                   buffer_, world_vars, mutexes, registry_vars, loc, issued,
                   caller_vars>>

\* Lines 504-505: the callback, and the end of the lock's scope.
handle_registered(t) ==
    /\ pc[t] = "handle_registered"
    /\ callbacks' = Append(callbacks,
           Callback(loc[t].observer, "handleRegistered", [logger_name |-> name_]))
    /\ unlock("observers_mutex_")
    /\ Goto(t, "idle")
    /\ UNCHANGED <<logger_vars, console, clock, next_id, thunk_calls, registry_vars,
                   loc, issued, caller_vars>>

\* Logger::remove_observer, line 513 (also ObserverScope's destructor).
remove_observer_lock(t, observer) ==
    /\ Issue(t, [op |-> "remove_observer", level |-> OFF, arg |-> observer])
    /\ lock_guard("observers_mutex_", t)
    /\ loc' = [loc EXCEPT ![t] = [Locals EXCEPT !.observer = observer]]
    /\ Goto(t, "observers_find")
    /\ UNCHANGED <<logger_vars, world_vars, registry_vars, caller_vars>>

\* Lines 515-516: std::find; an observer that is not in the list ends the
\* call.
observers_find(t) ==
    /\ pc[t] = "observers_find"
    /\ loc' = [loc EXCEPT ![t].it = find(observers_, loc[t].observer)]
    /\ IF find(observers_, loc[t].observer) # 0
       THEN Goto(t, "handle_unregistered") /\ UNCHANGED mutexes
       ELSE Goto(t, "idle") /\ unlock("observers_mutex_")
    /\ UNCHANGED <<logger_vars, world_vars, registry_vars, issued, caller_vars>>

\* Line 517: (*it)->handleUnregistered(name_).  An iterator that no longer
\* points into the vector may yield any handle.
handle_unregistered(t) ==
    /\ pc[t] = "handle_unregistered"
    /\ \E h \in (IF loc[t].it \in 1..Len(observers_)
                  THEN {observers_[loc[t].it]} ELSE Handles) :
           callbacks' = Append(callbacks,
               Callback(h, "handleUnregistered", [logger_name |-> name_]))
    /\ Goto(t, "observers_erase")
    /\ UNCHANGED <<logger_vars, console, clock, next_id, thunk_calls, mutexes,
                   registry_vars, loc, issued, caller_vars>>

\* Lines 518-520: erase, and the end of the lock's scope.
observers_erase(t) ==
    /\ pc[t] = "observers_erase"
    /\ observers_' = IF loc[t].it \in 1..Len(observers_)
                     THEN erase(observers_, loc[t].it)
                     ELSE observers_
    /\ unlock("observers_mutex_")
    /\ Goto(t, "idle")
    /\ UNCHANGED <<log_level_, console_enabled_, buffer_enabled_, clean_message_,
                   buffer_, world_vars, registry_vars, loc, issued, caller_vars>>

\* Logger::flush, line 479: if (console_enabled_).
flush_console(t) ==
    /\ Issue(t, [op |-> "flush", level |-> OFF, arg |-> ""])
    /\ loc' = [loc EXCEPT ![t] = Locals]
    /\ IF console_enabled_
       THEN Goto(t, "flush_console_lock")
       ELSE Goto(t, "flush_observers_lock")
    /\ UNCHANGED <<logger_vars, world_vars, mutexes, registry_vars, caller_vars>>

\* Line 481.
flush_console_lock(t) ==
    /\ pc[t] = "flush_console_lock"
    /\ lock_guard("console_mutex_", t)
    /\ Goto(t, "flush_endl")
    /\ UNCHANGED <<logger_vars, world_vars, registry_vars, loc, issued, caller_vars>>

\* Lines 483-484: std::cout << std::endl, and the end of the lock's scope.
flush_endl(t) ==
    /\ pc[t] = "flush_endl"
    /\ console' = Append(console, Chunk("endl", <<>>))
    /\ unlock("console_mutex_")
    /\ Goto(t, "flush_observers_lock")
    /\ UNCHANGED <<logger_vars, clock, next_id, callbacks, thunk_calls,
                   registry_vars, loc, issued, caller_vars>>

\* Line 489.
flush_observers_lock(t) ==
    /\ pc[t] = "flush_observers_lock"
    /\ lock_guard("observers_mutex_", t)
    /\ loc' = [loc EXCEPT ![t].i = 1]
    /\ Goto(t, "flush_notify")
    /\ UNCHANGED <<logger_vars, world_vars, registry_vars, issued, caller_vars>>

\* notify_observers_flush, lines 703-705: one turn of the loop, or its end,
\* where line 492 ends the lock's scope and flush returns.
flush_notify(t) ==
    /\ pc[t] = "flush_notify"
    /\ IF loc[t].i <= Len(observers_)
       THEN /\ callbacks' = Append(callbacks,
                   Callback(observers_[loc[t].i], "handleFlush", [logger_name |-> name_]))
            /\ loc' = [loc EXCEPT ![t].i = @ + 1]
            /\ UNCHANGED <<mutexes, pc>>
       ELSE /\ unlock("observers_mutex_")
            /\ Goto(t, "idle")
            /\ UNCHANGED <<callbacks, loc>>
    /\ UNCHANGED <<logger_vars, console, clock, next_id, thunk_calls, registry_vars,
                   issued, caller_vars>>

\* Logger::enable_buffer, line 434.
enable_buffer_lock(t, capacity) ==
    /\ Issue(t, [op |-> "enable_buffer", level |-> OFF, arg |-> ""])
    /\ lock_guard("mutex_", t)
    /\ loc' = [loc EXCEPT ![t] = [Locals EXCEPT !.i = capacity]]
    /\ Goto(t, "enable_flag")
    /\ UNCHANGED <<logger_vars, world_vars, registry_vars, caller_vars>>

\* Line 435: buffer_enabled_ = true.
enable_flag(t) ==
    /\ pc[t] = "enable_flag"
    /\ buffer_enabled_' = TRUE
    /\ Goto(t, "enable_make")
    /\ UNCHANGED <<log_level_, console_enabled_, clean_message_, buffer_, observers_,
                   world_vars, mutexes, registry_vars, loc, issued, caller_vars>>

\* Lines 436-437: buffer_ = std::make_unique<LogBuffer>(capacity) destroys
\* the LogBuffer held before; the lock's scope ends.
enable_make(t) ==
    /\ pc[t] = "enable_make"
    /\ buffer_' = LogBuffer(next_id, loc[t].i)
    /\ next_id' = next_id + 1
    /\ unlock("mutex_")
    /\ Goto(t, "idle")
    /\ UNCHANGED <<log_level_, console_enabled_, buffer_enabled_, clean_message_,
                   observers_, console, clock, callbacks, thunk_calls, registry_vars,
                   loc, issued, caller_vars>>

\* Logger::disable_buffer, line 443.
disable_buffer_lock(t) ==
    /\ Issue(t, [op |-> "disable_buffer", level |-> OFF, arg |-> ""])
    /\ lock_guard("mutex_", t)
    /\ Goto(t, "disable_flag")
    /\ UNCHANGED <<logger_vars, world_vars, registry_vars, loc, caller_vars>>

\* Line 444: buffer_enabled_ = false.
disable_flag(t) ==
    /\ pc[t] = "disable_flag"
    /\ buffer_enabled_' = FALSE
    /\ Goto(t, "disable_reset")
    /\ UNCHANGED <<log_level_, console_enabled_, clean_message_, buffer_, observers_,
                   world_vars, mutexes, registry_vars, loc, issued, caller_vars>>

\* Lines 445-446: buffer_.reset() destroys the LogBuffer; the lock's scope
\* ends.
disable_reset(t) ==
    /\ pc[t] = "disable_reset"
    /\ buffer_' = NULL
    /\ unlock("mutex_")
    /\ Goto(t, "idle")
    /\ UNCHANGED <<log_level_, console_enabled_, buffer_enabled_, clean_message_,
                   observers_, world_vars, registry_vars, loc, issued, caller_vars>>

\* xs is the beginning of ys.
IsPrefix(xs, ys) == Len(xs) <= Len(ys) /\ SubSeq(ys, 1, Len(xs)) = xs

\* What a build may do with a vector iterator that points into storage the
\* vector has given up: stop the process, or read what the storage held.
DanglingOutcomes == {"crash", "stale"}

\* The caller's iterator still points into the vector: no element it was
\* obtained over has been erased, and, reallocated being whether a
\* push_back since then moved the elements, none has been moved.
iterator_valid(t, reallocated) ==
    /\ add_alive(t)
    /\ IsPrefix(loc[t].result, buffer_.entries_)
    /\ loc[t].result # buffer_.entries_ => ~reallocated

\* A read through a dangling iterator.
iterator_dangling(t) ==
    \E outcome \in DanglingOutcomes :
        IF outcome = "crash"
        THEN Goto(t, "crashed") /\ UNCHANGED loc
        ELSE IF loc[t].it <= Len(loc[t].result)
             THEN /\ loc' = [loc EXCEPT ![t].args = Append(@, loc[t].result[loc[t].it]),
                                        ![t].it = @ + 1]
                  /\ Goto(t, "iterate_test")
             ELSE Goto(t, "idle") /\ UNCHANGED loc

\* for (auto it = buffer->cbegin(); ...): LogBuffer::cbegin, lines 256-259,
\* locks, takes entries_.cbegin() and unlocks; the caller keeps the
\* iterator, here its position together with the elements it ranges over.
iterate_cbegin(t) ==
    /\ Issue(t, [op |-> "iterate", level |-> OFF, arg |-> ""])
    /\ buffer_ # NULL
    /\ buffer_.mutex_ = 0
    /\ loc' = [loc EXCEPT ![t] = [Locals EXCEPT !.it = 1, !.buf = buffer_.id,
                                                !.result = buffer_.entries_]]
    /\ Goto(t, "iterate_test")
    /\ UNCHANGED <<logger_vars, world_vars, mutexes, registry_vars, caller_vars>>

\* it != buffer->cend(): LogBuffer::cend, lines 265-268, locks, takes
\* entries_.cend() and unlocks; the comparison ends the loop or not.
iterate_test(t) ==
    /\ pc[t] = "iterate_test"
    /\ buffer_.mutex_ = 0
    /\ \E reallocated \in BOOLEAN :
           IF iterator_valid(t, reallocated)
           THEN /\ loc' = [loc EXCEPT ![t].result = buffer_.entries_]
                /\ IF loc[t].it > Len(buffer_.entries_)
                   THEN Goto(t, "idle")
                   ELSE Goto(t, "iterate_read")
           ELSE iterator_dangling(t)
    /\ UNCHANGED <<logger_vars, world_vars, mutexes, registry_vars, issued, caller_vars>>

\* The loop body's *it and the ++it after it, with no lock held.
iterate_read(t) ==
    /\ pc[t] = "iterate_read"
    /\ \E reallocated \in BOOLEAN :
           IF iterator_valid(t, reallocated)
           THEN /\ loc' = [loc EXCEPT ![t].args = Append(@, buffer_.entries_[loc[t].it]),
                                      ![t].it = @ + 1,
                                      ![t].result = buffer_.entries_]
                /\ Goto(t, "iterate_test")
           ELSE iterator_dangling(t)
    /\ UNCHANGED <<logger_vars, world_vars, mutexes, registry_vars, issued, caller_vars>>

(* --------------------------- threads on the console ------------------- *)

\* Threads logging to, and flushing, a logger whose console is enabled.
NextConsoleThreads ==
    \/ \E t \in Threads : log_gate(t, INFO)
    \/ \E t \in Threads : log_format(t)
    \/ \E t \in Threads : log_console(t)
    \/ \E t \in Threads : console_lock(t)
    \/ \E t \in Threads : console_line(t)
    \/ \E t \in Threads : console_newline(t)
    \/ \E t \in Threads : log_buffer(t)
    \/ \E t \in Threads : observers_lock(t)
    \/ \E t \in Threads : notify(t)
    \/ \E t \in Threads : flush_console(t)
    \/ \E t \in Threads : flush_console_lock(t)
    \/ \E t \in Threads : flush_endl(t)
    \/ \E t \in Threads : flush_observers_lock(t)
    \/ \E t \in Threads : flush_notify(t)

SpecConsoleThreads == Init /\ [][NextConsoleThreads]_vars

(* --------------------------- threads on one buffer -------------------- *)

\* The logger of the Buffer tests after disable_console() and
\* enable_buffer(capacity).
InitBufferThreads ==
    /\ \E capacity \in 0..MaxCapacity : buffer_ = LogBuffer(1, capacity)
    /\ buffer_enabled_ = TRUE
    /\ console_enabled_ = FALSE
    /\ log_level_ = INFO
    /\ clean_message_ = TRUE
    /\ observers_ = <<>>
    /\ console = <<>> /\ clock = 0 /\ next_id = 2 /\ callbacks = <<>> /\ thunk_calls = 0
    /\ MutexesInit
    /\ RegistryInit
    /\ ThreadsInit
    /\ GhostInit
    /\ ScopesInit

\* Threads logging to, and clearing, the same buffer.
NextBufferThreads ==
    \/ \E t \in Threads, level \in BufferLevels : log_gate(t, level)
    \/ \E t \in Threads : log_format(t)
    \/ \E t \in Threads : log_console(t)
    \/ \E t \in Threads : log_buffer(t)
    \/ \E t \in Threads : buffer_lock(t)
    \/ \E t \in Threads : add_lock(t)
    \/ \E t \in Threads : add_evict(t)
    \/ \E t \in Threads : add_push_back(t)
    \/ \E t \in Threads : observers_lock(t)
    \/ \E t \in Threads : notify(t)
    \/ \E t \in Threads : clear_lock(t)
    \/ \E t \in Threads : clear_check(t)
    \/ \E t \in Threads : clear_buffer_lock(t)
    \/ \E t \in Threads : clear_entries(t)

SpecBufferThreads == InitBufferThreads /\ [][NextBufferThreads]_vars

\* Threads logging to a buffer while it is iterated over.
NextIterateThreads ==
    \/ \E t \in Threads : log_gate(t, INFO)
    \/ \E t \in Threads : log_format(t)
    \/ \E t \in Threads : log_console(t)
    \/ \E t \in Threads : log_buffer(t)
    \/ \E t \in Threads : buffer_lock(t)
    \/ \E t \in Threads : add_lock(t)
    \/ \E t \in Threads : add_evict(t)
    \/ \E t \in Threads : add_push_back(t)
    \/ \E t \in Threads : observers_lock(t)
    \/ \E t \in Threads : notify(t)
    \/ \E t \in Threads : iterate_cbegin(t)
    \/ \E t \in Threads : iterate_test(t)
    \/ \E t \in Threads : iterate_read(t)

SpecIterateThreads == InitBufferThreads /\ [][NextIterateThreads]_vars

(* --------------------------- LoggerRegistry --------------------------- *)

\* The lock_guard left out of get_logger.
registry_lock_guard_Absent(t) == registry_mutex_' = registry_mutex_

\* std::lock_guard on LoggerRegistry::mutex_.
registry_lock_guard(t) ==
    /\ registry_mutex_ = 0
    /\ registry_mutex_' = t

\* Another thread is between the find and the return of get_logger: the
\* two accesses to the unordered_map are not ordered, a data race.
DataRace(t) ==
    \E u \in Threads \ {t} :
        pc[u] \in {"loggers_find", "loggers_emplace", "get_logger_return"}

\* LoggerRegistry::get_logger(name) and ulog::getLogger, line 808.
get_logger_lock(t, name) ==
    /\ Issue(t, [op |-> "get_logger", level |-> OFF, arg |-> name])
    /\ registry_lock_guard(t)
    /\ loc' = [loc EXCEPT ![t] = [Locals EXCEPT !.name = name]]
    /\ Goto(t, "loggers_find")
    /\ UNCHANGED <<logger_vars, world_vars, mutexes, loggers_, returned, heap,
                   factory_calls, caller_vars>>

\* Lines 809-810: it = loggers_.find(name); 0 stands for end().
loggers_find(t) ==
    /\ pc[t] = "loggers_find"
    /\ loc' = [loc EXCEPT ![t].it = loggers_[loc[t].name]]
    /\ IF loggers_[loc[t].name] = 0
       THEN Goto(t, "loggers_emplace")
       ELSE Goto(t, "get_logger_return")
    /\ UNCHANGED <<logger_vars, world_vars, mutexes, registry_vars, issued, caller_vars>>

\* Line 811: a new Logger is made and emplaced; emplace keeps an element
\* that is already there.  In a data race the map may also end up holding
\* the new Logger in place of the other thread's.
loggers_emplace(t) ==
    /\ pc[t] = "loggers_emplace"
    /\ next_id' = next_id + 1
    /\ \E replaces \in (IF DataRace(t) THEN BOOLEAN ELSE {FALSE}) :
           loggers_' = IF loggers_[loc[t].name] = 0 \/ replaces
                       THEN [loggers_ EXCEPT ![loc[t].name] = next_id]
                       ELSE loggers_
    /\ heap' = heap @@ (next_id :> Logger(loc[t].name))
    /\ loc' = [loc EXCEPT ![t].it = loggers_'[loc[t].name]]
    /\ Goto(t, "get_logger_return")
    /\ UNCHANGED <<logger_vars, console, clock, callbacks, thunk_calls, mutexes,
                   registry_mutex_, returned, factory_calls, issued, caller_vars>>

\* Lines 813-814: return *it->second, and the end of the lock's scope.
get_logger_return(t) ==
    /\ pc[t] = "get_logger_return"
    /\ returned' = Append(returned,
           [thread |-> t, name |-> loc[t].name, logger |-> loc[t].it])
    /\ registry_mutex_' = 0
    /\ Goto(t, "idle")
    /\ UNCHANGED <<logger_vars, world_vars, mutexes, loggers_, heap, factory_calls,
                   loc, issued, caller_vars>>

NextRegistry ==
    \/ \E t \in Threads, name \in Names : get_logger_lock(t, name)
    \/ \E t \in Threads : loggers_find(t)
    \/ \E t \in Threads : loggers_emplace(t)
    \/ \E t \in Threads : get_logger_return(t)

SpecRegistry == Init /\ [][NextRegistry]_vars

(* --------------------------- the registry, one call at a time --------- *)

\* Calls made in one behaviour of the factory specification.
MaxRegistryOps == 4

\* The capacity the factory of demo_logger_factory enables.
FactoryCapacity == 50

\* enable_buffer, set_log_level and disable_console on a Logger object;
\* id is the number of the LogBuffer enable_buffer makes.
Logger_enable_buffer(logger, id, capacity) ==
    [logger EXCEPT !.buffer_enabled_ = TRUE, !.buffer_ = LogBuffer(id, capacity)]

Logger_set_log_level(logger, level) == [logger EXCEPT !.log_level_ = level]

Logger_disable_console(logger) == [logger EXCEPT !.console_enabled_ = FALSE]

\* The factory of demo_logger_factory: a Logger with its buffer enabled.
factory(name, id) == Logger_enable_buffer(Logger(name), id, FactoryCapacity)

\* The test read as true whatever the map holds.
loggers_absent_Always(map, name) == TRUE

\* it == loggers_.end() after it = loggers_.find(name).
loggers_absent(map, name) == map[name] = 0

\* unordered_map::emplace: an element already there is kept.
emplace(map, name, id) == IF map[name] = 0 THEN [map EXCEPT ![name] = id] ELSE map

\* LoggerRegistry::get_logger(name).
get_logger(name) ==
    /\ last' = [op |-> "get_logger", name |-> name]
    /\ IF loggers_absent(loggers_, name)
       THEN /\ heap' = heap @@ (next_id :> Logger(name))
            /\ loggers_' = emplace(loggers_, name, next_id)
            /\ next_id' = next_id + 1
       ELSE UNCHANGED <<heap, loggers_, next_id>>
    /\ returned' = Append(returned, [thread |-> 1, name |-> name, logger |-> loggers_'[name]])
    /\ UNCHANGED factory_calls

\* LoggerRegistry::get_logger(name, factory): the factory makes the Logger
\* (next_id) and its LogBuffer (next_id + 1).
get_logger_factory(name) ==
    /\ last' = [op |-> "get_logger_factory", name |-> name]
    /\ IF loggers_absent(loggers_, name)
       THEN /\ factory_calls' = factory_calls + 1
            /\ heap' = heap @@ (next_id :> factory(name, next_id + 1))
            /\ loggers_' = emplace(loggers_, name, next_id)
            /\ next_id' = next_id + 2
       ELSE UNCHANGED <<factory_calls, heap, loggers_, next_id>>
    /\ returned' = Append(returned, [thread |-> 1, name |-> name, logger |-> loggers_'[name]])

\* Calls through a reference get_logger returned.
held_set_log_level(id, level) ==
    /\ id \in DOMAIN heap
    /\ last' = [op |-> "set_log_level", name |-> heap[id].name_]
    /\ heap' = [heap EXCEPT ![id] = Logger_set_log_level(@, level)]
    /\ UNCHANGED <<loggers_, returned, factory_calls, next_id>>

held_disable_console(id) ==
    /\ id \in DOMAIN heap
    /\ last' = [op |-> "disable_console", name |-> heap[id].name_]
    /\ heap' = [heap EXCEPT ![id] = Logger_disable_console(@)]
    /\ UNCHANGED <<loggers_, returned, factory_calls, next_id>>

held_enable_buffer(id, capacity) ==
    /\ id \in DOMAIN heap
    /\ last' = [op |-> "enable_buffer", name |-> heap[id].name_]
    /\ heap' = [heap EXCEPT ![id] = Logger_enable_buffer(@, next_id, capacity)]
    /\ next_id' = next_id + 1
    /\ UNCHANGED <<loggers_, returned, factory_calls>>

\* One call on the registry, or on a logger it returned, by the only thread.
RegistryCall(call) ==
    /\ nops < MaxRegistryOps
    /\ nops' = nops + 1
    /\ call
    /\ UNCHANGED <<logger_vars, console, clock, callbacks, thunk_calls, mutexes,
                   registry_mutex_, thread_vars, accepted, scopes>>

NextFactory ==
    \/ \E name \in Names : RegistryCall(get_logger(name))
    \/ \E name \in Names : RegistryCall(get_logger_factory(name))
    \/ \E id \in DOMAIN heap, level \in {OFF, DEBUG} :
           RegistryCall(held_set_log_level(id, level))
    \/ \E id \in DOMAIN heap : RegistryCall(held_disable_console(id))
    \/ \E id \in DOMAIN heap, capacity \in 0..MaxCapacity :
           RegistryCall(held_enable_buffer(id, capacity))

SpecFactory == Init /\ [][NextFactory]_vars

(* --------------------------- MessageFormatter::format ----------------- *)

\* Pieces a format string is made of, and arguments passed with it.
MaxPieces == 3
MaxArgs == 3

\* "{?}", "{0}", "{1}", the out-of-range "{5}" of the Formatter tests, "a".
FormatPieces == {anonymous_placeholder, placeholder(0), placeholder(1),
                 <<123, 53, 125>>, <<97>>}

RECURSIVE FormatStrings(_)
\* The format strings of up to n pieces.
FormatStrings(n) ==
    IF n = 0 THEN {<<>>}
    ELSE FormatStrings(n - 1) \cup
             {f \o piece : f \in FormatStrings(n - 1), piece \in FormatPieces}

\* Argument values: "x", an integer, and a string that reads as a
\* placeholder.
ArgValues == {StringArg(<<120>>), IntArg(7), StringArg(placeholder(1))}

ArgLists == UNION {[1..n -> ArgValues] : n \in 0..MaxArgs}

\* std::vector<std::string> arg_strings of thread t's call.
arg_strings(t) == [k \in 1..Len(loc[t].args) |-> ustr_to_string(loc[t].args[k])]

\* MessageFormatter::format: without arguments the format string comes
\* back; with arguments format_impl starts on a copy of it.
format_call(t) ==
    /\ pc[t] = "format"
    /\ IF loc[t].args = <<>>
       THEN /\ loc' = [loc EXCEPT ![t].result = loc[t].format]
            /\ Goto(t, "format_done")
       ELSE /\ loc' = [loc EXCEPT ![t].result = loc[t].format,
                                  ![t].arg_index = 0, ![t].pos = 0]
            /\ Goto(t, "anonymous")
    /\ UNCHANGED <<logger_vars, world_vars, mutexes, registry_vars, issued, caller_vars>>

\* The anonymous loop without line 334: the scan goes on at the text it
\* has just inserted.
anonymous_scan_Rescans(t) ==
    /\ pc[t] = "anonymous"
    /\ LET found == string_find(loc[t].result, anonymous_placeholder, loc[t].pos)
           arg == arg_strings(t)[loc[t].arg_index + 1]
       IN  IF anonymous_continues(found, loc[t].arg_index, arg_strings(t))
           THEN /\ loc' = [loc EXCEPT
                       ![t].result = string_replace(@, found, 3, arg),
                       ![t].arg_index = @ + 1,
                       ![t].pos = found]
                /\ UNCHANGED pc
           ELSE /\ loc' = [loc EXCEPT ![t].pos = found, ![t].i = 0]
                /\ Goto(t, "positional")
    /\ UNCHANGED <<logger_vars, world_vars, mutexes, registry_vars, issued, caller_vars>>

\* Lines 332-335: one test of the anonymous loop, and its body.
anonymous_scan(t) ==
    /\ pc[t] = "anonymous"
    /\ LET found == string_find(loc[t].result, anonymous_placeholder, loc[t].pos)
           arg == arg_strings(t)[loc[t].arg_index + 1]
       IN  IF anonymous_continues(found, loc[t].arg_index, arg_strings(t))
           THEN /\ loc' = [loc EXCEPT
                       ![t].result = string_replace(@, found, 3, arg),
                       ![t].arg_index = @ + 1,
                       ![t].pos = found + Len(arg)]
                /\ UNCHANGED pc
           ELSE /\ loc' = [loc EXCEPT ![t].pos = found, ![t].i = 0]
                /\ Goto(t, "positional")
    /\ UNCHANGED <<logger_vars, world_vars, mutexes, registry_vars, issued, caller_vars>>

\* Lines 338-340: the test of the for loop and the start of a scan.
positional_next(t) ==
    /\ pc[t] = "positional"
    /\ IF loc[t].i < Len(loc[t].args)
       THEN /\ loc' = [loc EXCEPT ![t].pos = positional_start(@)]
            /\ Goto(t, "positional_scan")
       ELSE /\ Goto(t, "format_done")
            /\ UNCHANGED loc
    /\ UNCHANGED <<logger_vars, world_vars, mutexes, registry_vars, issued, caller_vars>>

\* The inner loop without line 344: the scan goes on at the text it has
\* just inserted.
positional_scan_Rescans(t) ==
    /\ pc[t] = "positional_scan"
    /\ LET found == string_find(loc[t].result, placeholder(loc[t].i), loc[t].pos)
           arg == arg_strings(t)[loc[t].i + 1]
       IN  IF found # npos
           THEN /\ loc' = [loc EXCEPT
                       ![t].result = string_replace(@, found,
                                                    Len(placeholder(loc[t].i)), arg),
                       ![t].pos = found]
                /\ UNCHANGED pc
           ELSE /\ loc' = [loc EXCEPT ![t].pos = found, ![t].i = @ + 1]
                /\ Goto(t, "positional")
    /\ UNCHANGED <<logger_vars, world_vars, mutexes, registry_vars, issued, caller_vars>>

\* Lines 341-345: one test of the inner loop, and its body or ++i.
positional_scan(t) ==
    /\ pc[t] = "positional_scan"
    /\ LET found == string_find(loc[t].result, placeholder(loc[t].i), loc[t].pos)
           arg == arg_strings(t)[loc[t].i + 1]
       IN  IF found # npos
           THEN /\ loc' = [loc EXCEPT
                       ![t].result = string_replace(@, found,
                                                    Len(placeholder(loc[t].i)), arg),
                       ![t].pos = found + Len(arg)]
                /\ UNCHANGED pc
           ELSE /\ loc' = [loc EXCEPT ![t].pos = found, ![t].i = @ + 1]
                /\ Goto(t, "positional")
    /\ UNCHANGED <<logger_vars, world_vars, mutexes, registry_vars, issued, caller_vars>>

\* Thread 1 is about to call format with some format string and arguments.
InitFormat ==
    /\ LoggerInit
    /\ WorldInit
    /\ MutexesInit
    /\ RegistryInit
    /\ GhostInit
    /\ ScopesInit
    /\ issued = [t \in Threads |-> <<>>]
    /\ pc = [t \in Threads |-> IF t = 1 THEN "format" ELSE "idle"]
    /\ \E format \in FormatStrings(MaxPieces), args \in ArgLists :
           loc = [t \in Threads |->
                     IF t = 1 THEN [Locals EXCEPT !.format = format, !.args = args]
                     ELSE Locals]

NextFormat ==
    \/ \E t \in Threads : format_call(t)
    \/ \E t \in Threads : anonymous_scan(t)
    \/ \E t \in Threads : positional_next(t)
    \/ \E t \in Threads : positional_scan(t)

SpecFormat == InitFormat /\ [][NextFormat]_vars

(* ---------------- arguments that read as placeholders ----------------- *)

\* "{?}", "{0}", "{1}": templates made of placeholders alone.
SlotPieces == {anonymous_placeholder, placeholder(0), placeholder(1)}

RECURSIVE SlotStrings(_)
SlotStrings(n) ==
    IF n = 0 THEN {<<>>}
    ELSE SlotStrings(n - 1) \cup
             {f \o piece : f \in SlotStrings(n - 1), piece \in SlotPieces}

\* Arguments "", "{?}", "{0}" and "{1}".
SlotArgValues == {StringArg(<<>>), StringArg(anonymous_placeholder),
                  StringArg(placeholder(0)), StringArg(placeholder(1))}

\* Thread 1 is about to call format with one of the templates and up to
\* MaxArgs of the argument values.
FormatStart(templates, values) ==
    /\ LoggerInit
    /\ WorldInit
    /\ MutexesInit
    /\ RegistryInit
    /\ GhostInit
    /\ ScopesInit
    /\ issued = [t \in Threads |-> <<>>]
    /\ pc = [t \in Threads |-> IF t = 1 THEN "format" ELSE "idle"]
    /\ \E format \in templates, args \in UNION {[1..n -> values] : n \in 0..MaxArgs} :
           loc = [t \in Threads |->
                     IF t = 1 THEN [Locals EXCEPT !.format = format, !.args = args]
                     ELSE Locals]

SpecFormatSlots ==
    FormatStart(SlotStrings(MaxPieces), SlotArgValues) /\ [][NextFormat]_vars

\* Arguments "", "{?}" and "{0}": empty text, and text that reads as the
\* placeholder a scan is replacing.
LiveArgValues == {StringArg(<<>>), StringArg(anonymous_placeholder),
                  StringArg(placeholder(0))}

\* The loops of format_impl are run by the calling thread until they end.
SpecFormatLive ==
    /\ FormatStart(SlotStrings(MaxPieces), LiveArgValues)
    /\ [][NextFormat]_vars
    /\ WF_vars(NextFormat)

(* --------------------------- logging raw bytes ------------------------ *)

\* Longest message and number of calls in a behaviour of the cleaning
\* specification.
MaxMessageLen == 3
MaxCleanCalls == 2

\* NUL, the five whitespace controls, another control character, a space, a
\* letter and the lead byte of a two-byte UTF-8 sequence.
CleanBytes == {0, 9, 10, 11, 12, 13, 31, 32, 97, 195}

CleanMessages == UNION {[1..n -> CleanBytes] : n \in 0..MaxMessageLen}

\* One call on the logger by thread 1.
CleanCall(call) ==
    /\ nops < MaxCleanCalls
    /\ nops' = nops + 1
    /\ call
    /\ UNCHANGED <<mutexes, registry_vars, thread_vars, scopes>>

\* Thread 1 holds some message it is going to log.
InitClean ==
    /\ LoggerInit
    /\ WorldInit
    /\ MutexesInit
    /\ RegistryInit
    /\ GhostInit
    /\ ScopesInit
    /\ issued = [t \in Threads |-> <<>>]
    /\ pc = [t \in Threads |-> "idle"]
    /\ \E message \in CleanMessages :
           loc = [t \in Threads |->
                     IF t = 1 THEN [Locals EXCEPT !.format = message] ELSE Locals]

NextClean ==
    \/ CleanCall(log(INFO, loc[1].format))
    \/ CleanCall(enable_clean_message)
    \/ CleanCall(disable_clean_message)

SpecClean == InitClean /\ [][NextClean]_vars

\* Longest message of the UTF-8 specification: a four-byte sequence fits.
MaxUnicodeLen == 4

\* A newline, a letter, a continuation byte, and the lead bytes of a two-,
\* a three- and a four-byte sequence.
UnicodeBytes == {10, 97, 128, 195, 226, 240}

UnicodeMessages == UNION {[1..n -> UnicodeBytes] : n \in 0..MaxUnicodeLen}

\* Thread 1 holds some message of UTF-8 material it is going to log.
InitUnicode ==
    /\ LoggerInit
    /\ WorldInit
    /\ MutexesInit
    /\ RegistryInit
    /\ GhostInit
    /\ ScopesInit
    /\ issued = [t \in Threads |-> <<>>]
    /\ pc = [t \in Threads |-> "idle"]
    /\ \E message \in UnicodeMessages :
           loc = [t \in Threads |->
                     IF t = 1 THEN [Locals EXCEPT !.format = message] ELSE Locals]

SpecUnicode == InitUnicode /\ [][NextClean]_vars

(* --------------------------- a logger left at its default level ------- *)

\* Calls made in one behaviour of the default-level specification.
MaxDefaultOps == 5

\* The levels of the calls info, debug and error.
DefaultLevels == {INFO, DEBUG, ERROR}

DefaultCall(call) ==
    /\ nops < MaxDefaultOps
    /\ nops' = nops + 1
    /\ call
    /\ UNCHANGED <<mutexes, registry_vars, thread_vars, scopes>>

\* A logger as the registry made it: set_log_level is never called.
NextDefault ==
    \/ \E level \in DefaultLevels : DefaultCall(log(level, <<97>>))
    \/ DefaultCall(enable_buffer(0))
    \/ DefaultCall(add_observer("A"))
    \/ DefaultCall(disable_console)

SpecDefault == Init /\ [][NextDefault]_vars

(* ------------------ one entry for buffer and observers ---------------- *)

MaxEntryOps == 5

EntryCall(call) ==
    /\ nops < MaxEntryOps
    /\ nops' = nops + 1
    /\ call
    /\ UNCHANGED <<mutexes, registry_vars, thread_vars, scopes>>

\* The calls of the CleanMessageDisabled and CleanMessageWithObserver tests
\* in any order: a buffer, observers, the cleaning switch and info().
NextEntries ==
    \/ \E format \in Templates : EntryCall(log(INFO, format))
    \/ EntryCall(enable_buffer(0))
    \/ \E observer \in Handles : EntryCall(add_observer(observer))
    \/ EntryCall(enable_clean_message)
    \/ EntryCall(disable_clean_message)
    \/ EntryCall(disable_console)

SpecEntries == Init /\ [][NextEntries]_vars

(* --------------------------- threads and observers -------------------- *)

\* The logger of the Observer tests after disable_console().
InitObserverThreads ==
    /\ console_enabled_ = FALSE
    /\ buffer_enabled_ = FALSE
    /\ log_level_ = INFO
    /\ clean_message_ = TRUE
    /\ buffer_ = NULL
    /\ observers_ = <<>>
    /\ WorldInit
    /\ MutexesInit
    /\ RegistryInit
    /\ ThreadsInit
    /\ GhostInit
    /\ ScopesInit

\* Threads logging while observers are added and removed.
NextObserverThreads ==
    \/ \E t \in Threads : log_gate(t, INFO)
    \/ \E t \in Threads : log_format(t)
    \/ \E t \in Threads : log_console(t)
    \/ \E t \in Threads : log_buffer(t)
    \/ \E t \in Threads : observers_lock(t)
    \/ \E t \in Threads : notify(t)
    \/ \E t \in Threads, observer \in Handles : add_observer_lock(t, observer)
    \/ \E t \in Threads : observers_push_back(t)
    \/ \E t \in Threads : handle_registered(t)
    \/ \E t \in Threads, observer \in Handles : remove_observer_lock(t, observer)
    \/ \E t \in Threads : observers_find(t)
    \/ \E t \in Threads : handle_unregistered(t)
    \/ \E t \in Threads : observers_erase(t)

SpecObserverThreads == InitObserverThreads /\ [][NextObserverThreads]_vars

(* --------------------------- threads toggling the buffer -------------- *)

\* Threads logging while the buffer is enabled and disabled.
NextToggleThreads ==
    \/ \E t \in Threads : log_gate(t, INFO)
    \/ \E t \in Threads : log_format(t)
    \/ \E t \in Threads : log_console(t)
    \/ \E t \in Threads : log_buffer(t)
    \/ \E t \in Threads : buffer_lock(t)
    \/ \E t \in Threads : add_lock(t)
    \/ \E t \in Threads : add_evict(t)
    \/ \E t \in Threads : add_push_back(t)
    \/ \E t \in Threads : observers_lock(t)
    \/ \E t \in Threads : notify(t)
    \/ \E t \in Threads : enable_buffer_lock(t, 0)
    \/ \E t \in Threads : enable_flag(t)
    \/ \E t \in Threads : enable_make(t)
    \/ \E t \in Threads : disable_buffer_lock(t)
    \/ \E t \in Threads : disable_flag(t)
    \/ \E t \in Threads : disable_reset(t)

SpecToggleThreads == InitObserverThreads /\ [][NextToggleThreads]_vars

(* --------------------------- observers that throw --------------------- *)

\* The observers whose handleNewMessage throws.
ThrowingHandles == {"B"}

\* The next callback of thread t's notification pass is one that throws.
Throws(t) ==
    /\ pc[t] = "notify"
    /\ loc[t].i <= Len(observers_)
    /\ observers_[loc[t].i] \in ThrowingHandles

\* notify_observers_message, line 698, with a handleNewMessage that throws:
\* nothing catches, the loop is left, the lock_guard of line 690 unlocks
\* during unwinding and log ends with the exception.
notify_unwind(t) ==
    /\ Throws(t)
    /\ callbacks' = Append(callbacks,
           Callback(observers_[loc[t].i], "handleNewMessage", loc[t].entry))
    /\ unlock("observers_mutex_")
    /\ Goto(t, "idle")
    /\ UNCHANGED <<logger_vars, console, clock, next_id, thunk_calls, registry_vars,
                   loc, issued, caller_vars>>

\* Threads logging and adding observers, one of which throws.
NextThrowing ==
    \/ \E t \in Threads : log_gate(t, INFO)
    \/ \E t \in Threads : log_format(t)
    \/ \E t \in Threads : log_console(t)
    \/ \E t \in Threads : log_buffer(t)
    \/ \E t \in Threads : observers_lock(t)
    \/ \E t \in Threads : ~Throws(t) /\ notify(t)
    \/ \E t \in Threads : notify_unwind(t)
    \/ \E t \in Threads, observer \in Handles : add_observer_lock(t, observer)
    \/ \E t \in Threads : observers_push_back(t)
    \/ \E t \in Threads : handle_registered(t)

SpecThrowing == InitObserverThreads /\ [][NextThrowing]_vars

(* ------------------------ threads on all three sinks ------------------ *)

\* A logger with its console enabled, an unbounded buffer and observer A.
InitSinks ==
    /\ console_enabled_ = TRUE
    /\ buffer_enabled_ = TRUE
    /\ buffer_ = LogBuffer(1, 0)
    /\ log_level_ = INFO
    /\ clean_message_ = TRUE
    /\ observers_ = <<"A">>
    /\ console = <<>> /\ clock = 0 /\ next_id = 2 /\ callbacks = <<>> /\ thunk_calls = 0
    /\ MutexesInit
    /\ RegistryInit
    /\ ThreadsInit
    /\ GhostInit
    /\ ScopesInit

\* Threads logging to the console, the buffer and the observer.
NextSinks ==
    \/ \E t \in Threads : log_gate(t, INFO)
    \/ \E t \in Threads : log_format(t)
    \/ \E t \in Threads : log_console(t)
    \/ \E t \in Threads : console_lock(t)
    \/ \E t \in Threads : console_line(t)
    \/ \E t \in Threads : console_newline(t)
    \/ \E t \in Threads : log_buffer(t)
    \/ \E t \in Threads : buffer_lock(t)
    \/ \E t \in Threads : add_lock(t)
    \/ \E t \in Threads : add_evict(t)
    \/ \E t \in Threads : add_push_back(t)
    \/ \E t \in Threads : observers_lock(t)
    \/ \E t \in Threads : notify(t)

SpecSinks == InitSinks /\ [][NextSinks]_vars

(* ---------------------- threads setting the threshold ----------------- *)

\* Logger::set_log_level, line 536: one store to the atomic log_level_.
set_level(t, level) ==
    /\ Issue(t, [op |-> "set_log_level", level |-> level, arg |-> ""])
    /\ log_level_' = level
    /\ UNCHANGED <<console_enabled_, buffer_enabled_, clean_message_, buffer_,
                   observers_, world_vars, mutexes, registry_vars, pc, loc,
                   caller_vars>>

\* The thresholds the threads set: everything off, and INFO again.
SetLevels == {OFF, INFO}

\* Threads logging at INFO while the threshold is set, sinks and observer
\* list fixed.
NextLevelThreads ==
    \/ NextSinks
    \/ \E t \in Threads, level \in SetLevels : set_level(t, level)

SpecLevelThreads == InitSinks /\ [][NextLevelThreads]_vars

(* --------------------------- threads on two loggers ------------------- *)

\* The logger under test and, on the heap, the global logger: two Logger
\* objects, each with a console_mutex_ of its own, and one std::cout.
InitTwoLoggers ==
    /\ LoggerInit
    /\ WorldInit
    /\ mutexes = [mutex_ |-> 0, console_mutex_ |-> 0, buffer_mutex_ |-> 0,
                  observers_mutex_ |-> 0, global_console_mutex_ |-> 0]
    /\ loggers_ = [name \in Names |-> 0]
    /\ registry_mutex_ = 0
    /\ returned = <<>>
    /\ heap = <<Logger("")>>
    /\ factory_calls = 0
    /\ ThreadsInit
    /\ GhostInit
    /\ ScopesInit

\* Logger::log on the global logger, lines 657-672: the gate, the message
\* and the entry, and if (console_enabled_). The logger has no buffer and
\* no observers, so the call is over after its console section.
global_log(t, level) ==
    /\ Issue(t, [op |-> "log", level |-> level, arg |-> heap[1].name_])
    /\ LET message == ThreadMessage(t, Len(issued[t]) + 1)
           cleaned == IF heap[1].clean_message_ THEN clean_message(message) ELSE message
       IN  IF GateRejects(level, heap[1].log_level_)
           THEN /\ loc' = [loc EXCEPT ![t] = Locals]
                /\ UNCHANGED <<clock, pc>>
           ELSE /\ loc' = [loc EXCEPT ![t] = [Locals EXCEPT !.level = level,
                           !.format = message,
                           !.entry = LogEntry(clock, level, heap[1].name_, cleaned)]]
                /\ clock' = clock + 1
                /\ IF heap[1].console_enabled_
                   THEN Goto(t, "global_console_lock")
                   ELSE UNCHANGED pc
    /\ UNCHANGED <<logger_vars, console, next_id, callbacks, thunk_calls, mutexes,
                   registry_vars, caller_vars>>

\* Line 674 on the global logger: its own console_mutex_.
global_console_lock(t) ==
    /\ pc[t] = "global_console_lock"
    /\ lock_guard("global_console_mutex_", t)
    /\ Goto(t, "global_console_line")
    /\ UNCHANGED <<logger_vars, world_vars, registry_vars, loc, issued, caller_vars>>

\* Line 676, the first insertion into std::cout.
global_console_line(t) ==
    /\ pc[t] = "global_console_line"
    /\ console' = Append(console, Chunk("line", formatted_message(loc[t].entry)))
    /\ Goto(t, "global_console_newline")
    /\ UNCHANGED <<logger_vars, clock, next_id, callbacks, thunk_calls, mutexes,
                   registry_vars, loc, issued, caller_vars>>

\* Line 676, the second insertion, and the rest of the call, in which
\* nothing is stored or notified.
global_console_newline(t) ==
    /\ pc[t] = "global_console_newline"
    /\ console' = Append(console, Chunk("\n", <<>>))
    /\ unlock("global_console_mutex_")
    /\ Goto(t, "idle")
    /\ UNCHANGED <<logger_vars, clock, next_id, callbacks, thunk_calls,
                   registry_vars, loc, issued, caller_vars>>

\* Threads logging through the two loggers.
NextTwoLoggers ==
    \/ \E t \in Threads : log_gate(t, INFO)
    \/ \E t \in Threads : log_format(t)
    \/ \E t \in Threads : log_console(t)
    \/ \E t \in Threads : console_lock(t)
    \/ \E t \in Threads : console_line(t)
    \/ \E t \in Threads : console_newline(t)
    \/ \E t \in Threads : log_buffer(t)
    \/ \E t \in Threads : observers_lock(t)
    \/ \E t \in Threads : notify(t)
    \/ \E t \in Threads : global_log(t, INFO)
    \/ \E t \in Threads : global_console_lock(t)
    \/ \E t \in Threads : global_console_line(t)
    \/ \E t \in Threads : global_console_newline(t)

SpecTwoLoggers == InitTwoLoggers /\ [][NextTwoLoggers]_vars

(* -------------------- callers holding the buffer pointer -------------- *)

\* auto buffer = logger_.buffer(), as in BufferAssertions: Logger::buffer,
\* lines 526-529, returns buffer_.get() under mutex_; with a null pointer
\* the caller goes no further.
pointer_get(t) ==
    /\ Issue(t, [op |-> "buffer", level |-> OFF, arg |-> ""])
    /\ mutexes["mutex_"] = 0
    /\ loc' = [loc EXCEPT ![t] = [Locals EXCEPT !.buf = buffer_.id]]
    /\ IF buffer_ = NULL THEN UNCHANGED pc ELSE Goto(t, "pointer_size")
    /\ UNCHANGED <<logger_vars, world_vars, mutexes, registry_vars, caller_vars>>

\* buffer->size() or buffer->empty() through the pointer: LogBuffer::size,
\* lines 274-277, under the buffer's mutex if the LogBuffer is still there;
\* through a dangling pointer the read stops the process or returns what
\* the freed storage holds.
pointer_size(t) ==
    /\ pc[t] = "pointer_size"
    /\ IF add_alive(t)
       THEN /\ buffer_.mutex_ = 0
            /\ loc' = [loc EXCEPT ![t].i = LogBuffer_size(buffer_)]
            /\ Goto(t, "idle")
       ELSE \E outcome \in DanglingOutcomes :
                /\ Goto(t, IF outcome = "crash" THEN "crashed" ELSE "idle")
                /\ UNCHANGED loc
    /\ UNCHANGED <<logger_vars, world_vars, mutexes, registry_vars, issued, caller_vars>>

\* Threads reading the buffer's size while the buffer is enabled anew and
\* disabled.
NextPointerThreads ==
    \/ \E t \in Threads : pointer_get(t)
    \/ \E t \in Threads : pointer_size(t)
    \/ \E t \in Threads, capacity \in 0..MaxCapacity : enable_buffer_lock(t, capacity)
    \/ \E t \in Threads : enable_flag(t)
    \/ \E t \in Threads : enable_make(t)
    \/ \E t \in Threads : disable_buffer_lock(t)
    \/ \E t \in Threads : disable_flag(t)
    \/ \E t \in Threads : disable_reset(t)

SpecPointerThreads == InitBufferThreads /\ [][NextPointerThreads]_vars

(* ---------------------- observers that call the logger ---------------- *)

\* The observers whose callbacks call the logger that notifies them.
ReentrantHandles == {"B"}

\* What such a callback calls: a level method, flush, add_observer or
\* remove_observer.
NestedCalls == {"log", "flush", "add_observer", "remove_observer"}

\* std::mutex::lock by the thread that owns the mutex is undefined: the
\* thread waits for itself, or lock throws std::system_error
\* (resource_deadlock_would_occur).
SelfLockOutcomes == {"deadlock", "system_error"}

\* The next callback thread t makes is one that calls the logger.
Reenters(t) ==
    \/ /\ pc[t] = "notify"
       /\ loc[t].i <= Len(observers_)
       /\ observers_[loc[t].i] \in ReentrantHandles
    \/ /\ pc[t] = "handle_registered"
       /\ loc[t].observer \in ReentrantHandles

\* Line 698 or 504 with a callback that calls the logger. The console and
\* the buffer being disabled, a nested level method takes the time (669)
\* and a nested flush does nothing before they come, as add_observer (501)
\* and remove_observer (513) do at once, to the lock_guard on
\* observers_mutex_ (690, 489), which the thread holds since line 690 or
\* 501 of the outer call. If lock throws, the exception leaves the callback
\* and the outer call, whose lock_guard unlocks.
callback_reenter(t) ==
    /\ Reenters(t)
    /\ mutexes["observers_mutex_"] = t
    /\ ~console_enabled_ /\ ~buffer_enabled_
    /\ callbacks' = Append(callbacks,
           IF pc[t] = "notify"
           THEN Callback(observers_[loc[t].i], "handleNewMessage", loc[t].entry)
           ELSE Callback(loc[t].observer, "handleRegistered", [logger_name |-> name_]))
    /\ \E call \in NestedCalls, outcome \in SelfLockOutcomes :
           /\ clock' = IF call = "log" /\ ~GateRejects(INFO, log_level_)
                        THEN clock + 1 ELSE clock
           /\ IF outcome = "deadlock"
              THEN /\ Goto(t, "deadlocked")
                   /\ UNCHANGED mutexes
              ELSE /\ Goto(t, "idle")
                   /\ unlock("observers_mutex_")
    /\ UNCHANGED <<logger_vars, console, next_id, thunk_calls, registry_vars,
                   loc, issued, caller_vars>>

\* Thread t starts a call on the logger.
ReentrantCall(t) ==
    \/ log_gate(t, INFO)
    \/ \E observer \in Handles : add_observer_lock(t, observer)

\* Thread t takes the next step of the call it is in.
ReentrantStep(t) ==
    \/ log_format(t)
    \/ log_console(t)
    \/ log_buffer(t)
    \/ observers_lock(t)
    \/ ~Reenters(t) /\ notify(t)
    \/ observers_push_back(t)
    \/ ~Reenters(t) /\ handle_registered(t)
    \/ callback_reenter(t)

NextReentrant == \E t \in Threads : ReentrantCall(t) \/ ReentrantStep(t)

\* A thread that can take a step of its call takes it.
SpecReentrant ==
    /\ InitObserverThreads
    /\ [][NextReentrant]_vars
    /\ \A t \in Threads : WF_vars(ReentrantStep(t))

(* --------------------------- threads making every call ---------------- *)

\* Calls each thread makes in a behaviour of the specification of all calls.
MaxLiveCalls == 1

\* Logger::enable_console / disable_console, lines 461-472: the flag is set
\* under mutex_.
set_console(t, enabled) ==
    /\ Issue(t, [op |-> IF enabled THEN "enable_console" ELSE "disable_console",
                 level |-> OFF, arg |-> ""])
    /\ mutexes["mutex_"] = 0
    /\ console_enabled_' = enabled
    /\ UNCHANGED <<log_level_, buffer_enabled_, clean_message_, buffer_, observers_,
                   world_vars, mutexes, registry_vars, pc, loc, caller_vars>>

\* Logger::buffer, lines 526-529: buffer_.get() under mutex_.
buffer_get(t) ==
    /\ Issue(t, [op |-> "buffer", level |-> OFF, arg |-> ""])
    /\ mutexes["mutex_"] = 0
    /\ UNCHANGED <<logger_vars, world_vars, mutexes, registry_vars, pc, loc, caller_vars>>

\* Thread t starts a call, within its number of calls.
Call(t) ==
    /\ Len(issued[t]) < MaxLiveCalls
    /\ \/ log_gate(t, INFO)
       \/ flush_console(t)
       \/ add_observer_lock(t, "A")
       \/ remove_observer_lock(t, "A")
       \/ enable_buffer_lock(t, 0)
       \/ disable_buffer_lock(t)
       \/ clear_lock(t)
       \/ buffer_get(t)
       \/ \E enabled \in BOOLEAN : set_console(t, enabled)

\* Thread t takes the next step of the call it is in.
Proceed(t) ==
    \/ log_format(t)
    \/ log_console(t)
    \/ console_lock(t)
    \/ console_line(t)
    \/ console_newline(t)
    \/ log_buffer(t)
    \/ buffer_lock(t)
    \/ add_lock(t)
    \/ add_evict(t)
    \/ add_push_back(t)
    \/ observers_lock(t)
    \/ notify(t)
    \/ flush_console_lock(t)
    \/ flush_endl(t)
    \/ flush_observers_lock(t)
    \/ flush_notify(t)
    \/ observers_push_back(t)
    \/ handle_registered(t)
    \/ observers_find(t)
    \/ handle_unregistered(t)
    \/ observers_erase(t)
    \/ enable_flag(t)
    \/ enable_make(t)
    \/ disable_flag(t)
    \/ disable_reset(t)
    \/ clear_check(t)
    \/ clear_buffer_lock(t)
    \/ clear_entries(t)

NextLive == \E t \in Threads : Call(t) \/ Proceed(t)

\* Every thread that can take a step of its call takes one in the end: the
\* scheduler starves no thread.
Fairness == \A t \in Threads : WF_vars(Proceed(t))

SpecLive == InitBufferThreads /\ [][NextLive]_vars /\ Fairness

(* ------------------- properties of the single-threaded logger -------- *)

\* A step of Spec that is a call of `op`.
Called(op) == nops' = nops + 1 /\ last'.op = op

\* The callbacks made during the step.
NewCallbacks == SubSeq(callbacks', Len(callbacks) + 1, Len(callbacks'))

\* How often observer occurs in the observer list obs.
Occurrences(obs, observer) == Cardinality({i \in 1..Len(obs) : obs[i] = observer})

\* How many of the callbacks cbs are `kind` on observer.
Received(cbs, observer, kind) ==
    Cardinality({i \in 1..Len(cbs) : cbs[i].observer = observer /\ cbs[i].kind = kind})

\* The position in callbacks of observer's latest handleRegistered (0: none).
RegisteredAt(observer) ==
    LET at == {i \in 1..Len(callbacks) : /\ callbacks[i].observer = observer
                                          /\ callbacks[i].kind = "handleRegistered"}
    IN  IF at = {} THEN 0 ELSE CHOOSE i \in at : \A j \in at : j <= i

\* The step wrote one line for a level-L entry, and its "\n", to std::cout.
ConsoleGotLine(L) ==
    /\ Len(console') = Len(console) + 2
    /\ SubSeq(console', 1, Len(console)) = console
    /\ console'[Len(console) + 1].kind = "line"
    /\ console'[Len(console) + 1].text[2] = to_string(L)
    /\ console'[Len(console) + 2].kind = "\n"

\* The step put a new level-L entry at the back of the buffer.
BufferGotEntry(L) ==
    /\ buffer_'.entries_ # <<>>
    /\ LET e == buffer_'.entries_[Len(buffer_'.entries_)] IN
           /\ e.level = L
           /\ e.timestamp = clock
           /\ \A i \in 1..Len(buffer_.entries_) : buffer_.entries_[i] # e

\* The step handed observer a level-L entry.
ObserverGotEntry(observer, L) ==
    \E i \in 1..Len(NewCallbacks) :
        /\ NewCallbacks[i].observer = observer
        /\ NewCallbacks[i].kind = "handleNewMessage"
        /\ NewCallbacks[i].arg.level = L

\* C1: a call of the level-L method with threshold T delivers an entry to
\* the console (if enabled), to the buffer (if enabled) and to every
\* registered observer if and only if T is not OFF and L >= T.
C1_GateCorrectness ==
    [][\A L \in MsgLevels, T \in LogLevels :
        (Called("log") /\ last'.level = L /\ log_level_ = T) =>
            LET pass == T # OFF /\ L >= T IN
            /\ console_enabled_ => (ConsoleGotLine(L) <=> pass)
            /\ (buffer_enabled_ /\ buffer_ # NULL) => (BufferGotEntry(L) <=> pass)
            /\ \A i \in 1..Len(observers_) :
                   ObserverGotEntry(observers_[i], L) <=> pass]_vars

\* A WARN message passed the INFO threshold and reached the console, the
\* buffer and an observer.
C1_Witness ==
    /\ last.op = "log" /\ last.level = WARN /\ log_level_ = INFO
    /\ Len(console) = 2
    /\ Len(buffer_.entries_) = 1 /\ buffer_.entries_[1].level = WARN
    /\ Len(callbacks) = 2 /\ callbacks[2].kind = "handleNewMessage"

\* C2: a <level>_supplier call runs its thunk exactly once when the gate
\* accepts the level (threshold not OFF and level >= threshold) and not at
\* all when it rejects it; with threshold OFF no thunk ever runs.
C2_SupplierZeroCost ==
    [][\A L \in MsgLevels, T \in LogLevels :
        (Called("log_supplier") /\ last'.level = L /\ log_level_ = T) =>
            thunk_calls' = thunk_calls + (IF T # OFF /\ L >= T THEN 1 ELSE 0)]_vars

\* One supplier call ran its thunk; a later FATAL one with the threshold
\* OFF did not.
C2_Witness ==
    /\ last.op = "log_supplier" /\ last.level = FATAL
    /\ log_level_ = OFF
    /\ thunk_calls = 1

\* C6: a log call the gate rejects changes nothing: not the buffer (no
\* eviction, even at capacity), the console output, the observer list or
\* what any observer has received.
C6_RejectedChangesNothing ==
    [][\A L \in MsgLevels :
        (Called("log") /\ last'.level = L /\ (log_level_ = OFF \/ L < log_level_)) =>
            UNCHANGED <<buffer_, console, observers_, callbacks>>]_vars

\* A rejected call on a logger whose buffer is at capacity.
C6_Witness ==
    /\ last.op = "log" /\ last.level < log_level_
    /\ buffer_.capacity_ > 0
    /\ Len(buffer_.entries_) = buffer_.capacity_

\* C7: add_observer(h) makes exactly one handleRegistered(name) call on h;
\* remove_observer(h) of a registered h makes exactly one
\* handleUnregistered(name) call on h; an accepted message is handed to
\* handleNewMessage once for each registration in the list at the time.
C7_ObserverLifecycle ==
    [][\A h \in Handles :
        /\ (Called("add_observer") /\ last'.observer = h) =>
               NewCallbacks = <<Callback(h, "handleRegistered", [logger_name |-> name_])>>
        /\ (Called("remove_observer") /\ last'.observer = h
               /\ Occurrences(observers_, h) > 0) =>
               NewCallbacks = <<Callback(h, "handleUnregistered", [logger_name |-> name_])>>
        /\ (Called("log") /\ log_level_ # OFF /\ last'.level >= log_level_) =>
               /\ Received(NewCallbacks, h, "handleNewMessage") = Occurrences(observers_, h)
               /\ Len(NewCallbacks) = Len(observers_)]_vars

\* An observer was added, got one message, and was removed.
C7_Witness ==
    /\ last.op = "remove_observer"
    /\ Len(callbacks) = 3
    /\ callbacks[1].kind = "handleRegistered"
    /\ callbacks[2].kind = "handleNewMessage"
    /\ callbacks[3].kind = "handleUnregistered"
    /\ callbacks[1].observer = callbacks[3].observer

\* C9: within one accepted log call, and within one flush, observers are
\* notified in registration order: if A was added before B and both are
\* still registered, A's callback runs before B's.
C9_NotificationOrder ==
    [][(Called("log") \/ Called("flush")) =>
        \A i, j \in 1..Len(NewCallbacks) :
            LET a == NewCallbacks[i].observer
                b == NewCallbacks[j].observer
            IN  (/\ Occurrences(observers_, a) = 1
                 /\ Occurrences(observers_, b) = 1
                 /\ RegisteredAt(a) < RegisteredAt(b)) => i < j]_vars

\* Two observers were added and one log call notified both.
C9_Witness ==
    /\ last.op = "log"
    /\ Len(callbacks) = 4
    /\ callbacks[3].kind = "handleNewMessage"
    /\ callbacks[4].kind = "handleNewMessage"
    /\ callbacks[3].observer # callbacks[4].observer

\* C12: the level starts at INFO and changes only through set_log_level:
\* get_log_level returns the argument of the most recent set_log_level
\* (INFO before the first), and no logging call, sink toggle, buffer
\* operation, observer operation or flush changes it.
C12_LevelChangesOnlyBySetter ==
    /\ [](nops = 0 => get_log_level = INFO)
    /\ [][IF Called("set_log_level")
          THEN get_log_level' = last'.level
          ELSE get_log_level' = get_log_level]_vars

\* The level was lowered to DEBUG from a higher one, and a later accepted
\* DEBUG log call left it there.
C12_Witness ==
    /\ nops = 3
    /\ last.op = "log" /\ last.level = DEBUG
    /\ get_log_level = DEBUG
    /\ Len(console) = 2

\* C16: each flush(), the one an AutoFlushingScope's destructor makes
\* included (one per scope exit, the innermost scope first), writes one line
\* terminator to the console if and only if the console is enabled, calls
\* handleFlush(logger name) once per registered observer, and leaves the
\* buffer, the level and the observer list unchanged.
C16_Flush ==
    [][/\ Called("flush") =>
            /\ console' = IF console_enabled_
                          THEN Append(console, Chunk("endl", <<>>))
                          ELSE console
            /\ Len(NewCallbacks) = Len(observers_)
            /\ \A i \in 1..Len(NewCallbacks) :
                   /\ NewCallbacks[i].kind = "handleFlush"
                   /\ NewCallbacks[i].arg = [logger_name |-> name_]
            /\ \A h \in Handles :
                   Received(NewCallbacks, h, "handleFlush") = Occurrences(observers_, h)
            /\ UNCHANGED <<buffer_, buffer_enabled_, log_level_, observers_>>
       /\ Len(scopes') < Len(scopes) =>
            /\ Called("flush")
            /\ scopes' = SubSeq(scopes, 1, Len(scopes) - 1)
       /\ (~Called("flush") /\ ~Called("log")) =>
            \A i \in 1..Len(NewCallbacks) : NewCallbacks[i].kind # "handleFlush"]_vars

\* Two nested scopes on a logger with one observer and the console on have
\* both ended: two line terminators and two handleFlush calls.
C16_Witness ==
    /\ last.op = "flush" /\ nops = 5
    /\ scopes = <<>> /\ next_id = 3 /\ buffer = NULL
    /\ console = <<Chunk("endl", <<>>), Chunk("endl", <<>>)>>
    /\ Len(callbacks) = 3
    /\ callbacks[1].kind = "handleRegistered"
    /\ callbacks[2].kind = "handleFlush" /\ callbacks[3].kind = "handleFlush"

(* ------------------- properties of the buffer ------------------------- *)

Min(a, b) == IF a < b THEN a ELSE b

\* C4: after N accepted messages logged one after another into a buffer of
\* capacity C > 0, size() is min(N, C) and the buffer holds exactly the last
\* min(N, C) of them in insertion order: a full buffer loses its oldest
\* entry at each insertion.
C4_BufferKeepsLast ==
    (buffer_ # NULL /\ buffer_.capacity_ > 0) =>
        LET N == Len(accepted)
            C == buffer_.capacity_
        IN  /\ LogBuffer_size(buffer_) = Min(N, C)
            /\ buffer_.entries_ = SubSeq(accepted, N - Min(N, C) + 1, N)

\* Three messages went into a buffer of capacity 2.
C4_Witness ==
    /\ last.op = "log"
    /\ buffer_.capacity_ = 2
    /\ Len(accepted) = 3
    /\ LogBuffer_size(buffer_) = 2

\* C14: enable_buffer(c) installs a new, empty LogBuffer of capacity c in
\* place of any earlier one, whose entries are gone; disable_buffer leaves
\* no buffer, so buffer() is null and accepted log calls store nothing;
\* and buffer() is non-null exactly when the most recent of enable_buffer
\* and disable_buffer was enable_buffer (no other call changes that).
C14_EnableDisableBuffer ==
    /\ [](nops = 0 => buffer = NULL)
    /\ [][/\ \A c \in 0..MaxCapacity :
                (Called("enable_buffer") /\ last'.capacity = c) =>
                    /\ buffer' # NULL
                    /\ buffer'.id # buffer.id
                    /\ buffer'.capacity_ = c
                    /\ LogBuffer_size(buffer') = 0
                    /\ buffer_enabled_'
          /\ Called("disable_buffer") => (buffer' = NULL /\ ~buffer_enabled_')
          /\ (~Called("enable_buffer") /\ ~Called("disable_buffer")) =>
                 /\ (buffer' = NULL) <=> (buffer = NULL)
                 /\ buffer_enabled_' = buffer_enabled_
                 /\ buffer'.id = buffer.id
                 /\ buffer'.capacity_ = buffer.capacity_]_vars

\* The second enable_buffer of a run with one accepted log call: the logger
\* holds LogBuffer number 2, empty.
C14_Witness ==
    /\ last.op = "enable_buffer"
    /\ nops = 3 /\ clock = 1
    /\ buffer.id = 2 /\ LogBuffer_size(buffer) = 0
    /\ Len(console) = 2

\* C15: clear_buffer empties the buffer (size() 0, empty() true) and leaves
\* it enabled, the same LogBuffer with the same capacity, so that accepted
\* log calls after it are stored and bounded as before; without a buffer it
\* does nothing; it never changes the level, the console flag or the
\* observers.
C15_ClearBuffer ==
    [][/\ Called("clear_buffer") =>
            /\ IF buffer # NULL
               THEN /\ LogBuffer_size(buffer') = 0
                    /\ LogBuffer_empty(buffer')
                    /\ buffer'.id = buffer.id
                    /\ buffer'.capacity_ = buffer.capacity_
               ELSE buffer' = NULL
            /\ UNCHANGED <<buffer_enabled_, log_level_, console_enabled_, observers_,
                           console, callbacks>>
       /\ (Called("log") /\ ~GateRejects(last'.level, log_level_)
             /\ buffer_enabled_ /\ buffer # NULL) =>
            /\ buffer'.entries_[LogBuffer_size(buffer')].timestamp = clock
            /\ LogBuffer_size(buffer') =
                   IF buffer.capacity_ > 0
                   THEN Min(LogBuffer_size(buffer) + 1, buffer.capacity_)
                   ELSE LogBuffer_size(buffer) + 1]_vars

\* clear_buffer has just emptied a full buffer of capacity 2, which is
\* still there and enabled.
C15_Witness ==
    /\ last.op = "clear_buffer" /\ last.size = 2
    /\ buffer # NULL /\ buffer.capacity_ = 2 /\ buffer_enabled_
    /\ LogBuffer_empty(buffer)

(* ------------------- properties of threads on one buffer -------------- *)

\* The calls thread t has made: their numbers.
Calls(t) == 1..Len(issued[t])

\* Call j of thread t has returned.
Returned(t, j) == j < Len(issued[t]) \/ (j = Len(issued[t]) /\ pc[t] = "idle")

\* Call j of thread t logs at a level the threshold lets through.
AcceptedCall(t, j) ==
    /\ issued[t][j].op = "log"
    /\ log_level_ # OFF /\ issued[t][j].level >= log_level_

\* Where the message of call j of thread t is in the buffer.
StoredAt(t, j) ==
    {i \in 1..Len(buffer_.entries_) : buffer_.entries_[i].message = ThreadMessage(t, j)}

ClearIssued == \E t \in Threads : \E j \in Calls(t) : issued[t][j].op = "clear_buffer"

\* C3: a buffer enabled with capacity C > 0 never holds more than C entries,
\* whatever the interleaving of the threads' log and clear_buffer calls.
C3_SizeWithinCapacity ==
    buffer_.capacity_ > 0 => LogBuffer_size(buffer_) <= buffer_.capacity_

\* A thread is inside add on a full buffer while the other has called
\* clear_buffer.
C3_Witness ==
    /\ buffer_.capacity_ > 0
    /\ \E t \in Threads :
           /\ pc[t] = "add_evict" /\ LogBuffer_full(buffer_)
           /\ \E u \in Threads \ {t} : \E j \in Calls(u) : issued[u][j].op = "clear_buffer"

\* C5: an unbounded buffer (capacity 0) loses nothing: every accepted
\* message of every thread is in the buffer exactly once when its call has
\* returned, none is there twice, and once all threads are done size() is
\* the number of accepted calls (T*M when all T*M calls are accepted).
C5_UnboundedKeepsAll ==
    (buffer_.capacity_ = 0 /\ ~ClearIssued) =>
        /\ \A t \in Threads : \A j \in Calls(t) :
               /\ Cardinality(StoredAt(t, j)) <= 1
               /\ (AcceptedCall(t, j) /\ Returned(t, j)) => Cardinality(StoredAt(t, j)) = 1
               /\ ~AcceptedCall(t, j) => StoredAt(t, j) = {}
        /\ (\A t \in Threads : pc[t] = "idle") =>
               LogBuffer_size(buffer_) =
                   Cardinality({c \in Threads \X (1..MaxCalls) :
                                   c[2] \in Calls(c[1]) /\ AcceptedCall(c[1], c[2])})

\* Every thread made all its calls, all were accepted, and the unbounded
\* buffer holds T*M entries.
C5_Witness ==
    /\ buffer_.capacity_ = 0
    /\ \A t \in Threads : pc[t] = "idle" /\ Len(issued[t]) = MaxCalls
    /\ LogBuffer_size(buffer_) = Cardinality(Threads) * MaxCalls

(* ------------------- properties of threads and observers -------------- *)

\* Where in callbacks observer got a callback of this kind.
CallbacksAt(observer, kind) ==
    {i \in 1..Len(callbacks) :
        callbacks[i].observer = observer /\ callbacks[i].kind = kind}

\* C8: for a handle registered once, every handleNewMessage it gets comes
\* after its handleRegistered and before its handleUnregistered, whatever
\* the interleaving with log calls; so no log call that starts after
\* remove_observer (or ~ObserverScope) returned reaches it.
C8_MessagesWithinRegistration ==
    \A h \in Handles :
        Cardinality(CallbacksAt(h, "handleRegistered")) <= 1 =>
            \A i \in CallbacksAt(h, "handleNewMessage") :
                /\ \E r \in CallbacksAt(h, "handleRegistered") : r < i
                /\ \A u \in CallbacksAt(h, "handleUnregistered") : i < u

\* One thread added and removed a handle, which got a message in between;
\* the other thread's second log call came after the removal and all calls
\* have returned.
C8_Witness ==
    \E h \in Handles, t \in Threads :
        /\ Len(callbacks) = 3
        /\ callbacks[1] = Callback(h, "handleRegistered", [logger_name |-> name_])
        /\ callbacks[2].observer = h /\ callbacks[2].kind = "handleNewMessage"
        /\ callbacks[3] = Callback(h, "handleUnregistered", [logger_name |-> name_])
        /\ Len(issued[t]) = 2 /\ issued[t][1].op = "log" /\ issued[t][2].op = "log"
        /\ \A u \in Threads : pc[u] = "idle"

(* ------------------- properties of the registry ----------------------- *)

\* C10: the registry holds at most one Logger per name: any two get_logger
\* calls with the same name (the empty name included) return the same
\* instance, the stored one, also when threads make the first lookup of the
\* name concurrently; and a stored logger is never replaced or removed.
C10_OneLoggerPerName ==
    /\ [](\A i, j \in 1..Len(returned) :
            /\ returned[i].logger # 0
            /\ returned[i].logger = loggers_[returned[i].name]
            /\ returned[i].name = returned[j].name =>
                   returned[i].logger = returned[j].logger)
    /\ [][\A name \in Names : loggers_[name] # 0 => loggers_'[name] = loggers_[name]]_vars

\* Both threads looked up the global logger as their first call; one
\* Logger was made and both got it.
C10_Witness ==
    /\ Len(returned) = 2
    /\ returned[1].thread # returned[2].thread
    /\ returned[1].name = "" /\ returned[2].name = ""
    /\ \A t \in Threads : Len(issued[t]) = 1
    /\ next_id = 2

(* ------------------- properties of the registry's loggers ------------- *)

\* The reference the step's get_logger call returned.
NewReturned == returned'[Len(returned')].logger

\* C11: get_logger(name, factory) runs the factory and stores its result
\* only when the registry has no logger for name; when it has one, however
\* that one was made and configured, the factory does not run and the
\* stored instance is returned with its configuration as it was.
C11_FactoryOnFirstCreation ==
    [][\A name \in Names :
        (Called("get_logger_factory") /\ last'.name = name) =>
            IF loggers_[name] = 0
            THEN /\ factory_calls' = factory_calls + 1
                 /\ NewReturned \notin DOMAIN heap
                 /\ loggers_' = [loggers_ EXCEPT ![name] = NewReturned]
                 /\ heap'[NewReturned].buffer_enabled_
                 /\ heap'[NewReturned].buffer_.capacity_ = FactoryCapacity
                 /\ \A id \in DOMAIN heap : heap'[id] = heap[id]
            ELSE /\ factory_calls' = factory_calls
                 /\ NewReturned = loggers_[name]
                 /\ loggers_' = loggers_
                 /\ heap' = heap]_vars

\* The factory made the global logger; "app" was made without one, and a
\* later get_logger("app", factory) returned it as it was, the factory not
\* run again.
C11_Witness ==
    /\ last.op = "get_logger_factory" /\ last.name = "app"
    /\ factory_calls = 1
    /\ loggers_[""] # 0 /\ heap[loggers_[""]].buffer_enabled_
    /\ loggers_["app"] # 0 /\ ~heap[loggers_["app"]].buffer_enabled_
    /\ returned[Len(returned)].logger = loggers_["app"]

\* C13: the Logger that plain get_logger(name) makes on the first lookup
\* of name is default-configured: console enabled, buffer disabled with no
\* LogBuffer (buffer() returns null), level INFO, message cleaning enabled,
\* no observers.
C13_DefaultConfigured ==
    [][\A name \in Names :
        (Called("get_logger") /\ last'.name = name /\ loggers_[name] = 0) =>
            /\ NewReturned \notin DOMAIN heap
            /\ loggers_'[name] = NewReturned
            /\ heap'[NewReturned].name_ = name
            /\ heap'[NewReturned].console_enabled_ = TRUE
            /\ heap'[NewReturned].buffer_enabled_ = FALSE
            /\ heap'[NewReturned].buffer_ = NULL
            /\ heap'[NewReturned].log_level_ = INFO
            /\ heap'[NewReturned].clean_message_ = TRUE
            /\ heap'[NewReturned].observers_ = <<>>]_vars

\* get_logger("app") has just made "app", after the global logger was made
\* by the factory and switched to DEBUG.
C13_Witness ==
    /\ last.op = "get_logger" /\ last.name = "app"
    /\ Len(returned) = 2 /\ returned[2].name = "app"
    /\ returned[1].name = ""
    /\ heap[returned[1].logger].buffer_enabled_
    /\ heap[returned[1].logger].log_level_ = DEBUG
    /\ heap[returned[2].logger].log_level_ = INFO

(* ------------------- properties of MessageFormatter::format ----------- *)

\* What the placeholders are, stated apart from the code: {?} and {N}.
AnonymousSlot == <<123, 63, 125>>
Slot(N) == <<123>> \o std_to_string(N) \o <<125>>

\* tok stands in s at index i (from 1).
StartsAt(s, i, tok) ==
    i + Len(tok) - 1 <= Len(s) /\ SubSeq(s, i, i + Len(tok) - 1) = tok

RECURSIVE AnonymousFrom(_, _, _, _)
\* s from index i on, read left to right, with the next {?} taking texts[k],
\* the one after it texts[k + 1]...; a {?} with no text left stays.
AnonymousFrom(s, i, texts, k) ==
    IF i > Len(s) THEN <<>>
    ELSE IF StartsAt(s, i, AnonymousSlot) /\ k <= Len(texts)
         THEN texts[k] \o AnonymousFrom(s, i + Len(AnonymousSlot), texts, k + 1)
         ELSE <<s[i]>> \o AnonymousFrom(s, i + 1, texts, k)

AnonymousExpected(s, texts) == AnonymousFrom(s, 1, texts, 1)

RECURSIVE ReplacedAllFrom(_, _, _, _)
\* s from index i on with every tok, read left to right, replaced by text.
ReplacedAllFrom(s, i, tok, text) ==
    IF i > Len(s) THEN <<>>
    ELSE IF StartsAt(s, i, tok)
         THEN text \o ReplacedAllFrom(s, i + Len(tok), tok, text)
         ELSE <<s[i]>> \o ReplacedAllFrom(s, i + 1, tok, text)

RECURSIVE PositionalPasses(_, _, _)
\* s after {N} was replaced throughout by texts[N + 1], then {N + 1}..., up
\* to the last text.
PositionalPasses(s, texts, N) ==
    IF N >= Len(texts) THEN s
    ELSE PositionalPasses(ReplacedAllFrom(s, 1, Slot(N), texts[N + 1]), texts, N + 1)

RECURSIVE ExpectedFrom(_, _, _, _)
\* s from index i on read once, left to right: the next {?} takes texts[k],
\* a {N} with N below the number of texts takes texts[N + 1], all else stays.
ExpectedFrom(s, i, texts, k) ==
    IF i > Len(s) THEN <<>>
    ELSE IF StartsAt(s, i, AnonymousSlot) /\ k <= Len(texts)
         THEN texts[k] \o ExpectedFrom(s, i + Len(AnonymousSlot), texts, k + 1)
    ELSE IF \E N \in 0..(Len(texts) - 1) : StartsAt(s, i, Slot(N))
         THEN LET N == CHOOSE M \in 0..(Len(texts) - 1) : StartsAt(s, i, Slot(M))
              IN  texts[N + 1] \o ExpectedFrom(s, i + Len(Slot(N)), texts, k)
    ELSE <<s[i]>> \o ExpectedFrom(s, i + 1, texts, k)

\* tok occurs somewhere in s.
Occurs(s, tok) == \E i \in 1..Len(s) : StartsAt(s, i, tok)

\* No text holds a brace: none can bring a placeholder into the result.
Plain(texts) == \A k \in 1..Len(texts) : \A i \in 1..Len(texts[k]) : texts[k][i] # 123

\* Thread t's call of format has returned.
FormatDone(t) == pc[t] = "format_done"

\* C17: format replaces the {?} of the template left to right with the
\* arguments in call order: after the anonymous pass the k-th {?} holds the
\* string of argument k-1 for every k up to the number of arguments and the
\* later {?} stand as they were; without arguments the template comes back
\* unchanged; and where that leaves no {N} to fill, this is the result, so
\* arguments beyond the number of placeholders play no part.
C17_AnonymousPlaceholders ==
    \A t \in Threads :
        LET f == loc[t].format
            texts == arg_strings(t)
        IN  /\ (pc[t] = "positional" /\ loc[t].i = 0) =>
                   loc[t].result = AnonymousExpected(f, texts)
            /\ (FormatDone(t) /\ texts = <<>>) => loc[t].result = f
            /\ (/\ FormatDone(t)
                /\ \A N \in 0..(Len(texts) - 1) :
                       ~Occurs(AnonymousExpected(f, texts), Slot(N))) =>
                   loc[t].result = AnonymousExpected(f, texts)

\* format("{?}{?}{?}", "x", 7) has returned "x7{?}".
C17_Witness ==
    /\ FormatDone(1)
    /\ loc[1].format = AnonymousSlot \o AnonymousSlot \o AnonymousSlot
    /\ loc[1].args = <<StringArg(<<120>>), IntArg(7)>>
    /\ loc[1].result = <<120, 55>> \o AnonymousSlot

\* C18: format replaces every {N} of the template with the string of
\* argument N for every N below the number of arguments, as often as {N}
\* occurs, and leaves every {N} with N at or above that number as it is.
\* (Templates without {?}; the replacements are made for N = 0, 1, ... in
\* turn, which for arguments without braces is one reading of the template.)
C18_PositionalPlaceholders ==
    \A t \in Threads :
        LET f == loc[t].format
            texts == arg_strings(t)
        IN  (FormatDone(t) /\ ~Occurs(f, AnonymousSlot)) =>
                /\ loc[t].result = PositionalPasses(f, texts, 0)
                /\ Plain(texts) => loc[t].result = ExpectedFrom(f, 1, texts, 1)
                /\ \A N \in Len(texts)..5 :
                       Occurs(f, Slot(N)) => Occurs(loc[t].result, Slot(N))

\* format("{1}{5}{1}", "x", 7) has returned "7{5}7".
C18_Witness ==
    /\ FormatDone(1)
    /\ loc[1].format = Slot(1) \o Slot(5) \o Slot(1)
    /\ loc[1].args = <<StringArg(<<120>>), IntArg(7)>>
    /\ loc[1].result = <<55>> \o Slot(5) \o <<55>>

\* C19: in a template with both kinds of placeholder the {?} are filled
\* first and the {N} second, and {N} is argument N of the argument list as
\* passed however many arguments the {?} took, so that a {N} can repeat an
\* argument a {?} has used ("{?}{1}{?}" with (a, b, c) gives "abb").
C19_AnonymousThenPositional ==
    \A t \in Threads :
        LET f == loc[t].format
            texts == arg_strings(t)
        IN  FormatDone(t) =>
                /\ loc[t].result =
                       PositionalPasses(AnonymousExpected(f, texts), texts, 0)
                /\ Plain(texts) => loc[t].result = ExpectedFrom(f, 1, texts, 1)

\* format("{?}{1}{?}", "x", 7, "x") has returned "x77".
C19_Witness ==
    /\ FormatDone(1)
    /\ loc[1].format = AnonymousSlot \o Slot(1) \o AnonymousSlot
    /\ loc[1].args = <<StringArg(<<120>>), IntArg(7), StringArg(<<120>>)>>
    /\ loc[1].result = <<120, 55, 55>>

(* ------------------- properties of Logger::clean_message -------------- *)

HexChars == <<48, 49, 50, 51, 52, 53, 54, 55, 56, 57, 65, 66, 67, 68, 69, 70>>

\* The four characters \xHH for the byte b.
Escape(b) == <<92, 120, HexChars[(b \div 16) + 1], HexChars[(b % 16) + 1]>>

\* out begins with the bytes of head.
BeginsWith(out, head) ==
    Len(head) <= Len(out) /\ SubSeq(out, 1, Len(head)) = head

\* out without its first n bytes.
Drop(out, n) == SubSeq(out, n + 1, Len(out))

RECURSIVE ControlBytesReplaced(_, _)
\* out is message with every byte 9..13 turned into one space and every
\* other byte below 32 into its escape, whatever became of the bytes from 32
\* up (each kept or escaped).
ControlBytesReplaced(message, out) ==
    IF message = <<>> THEN out = <<>>
    ELSE LET b == Head(message) IN
        IF b \in 9..13
        THEN BeginsWith(out, <<32>>) /\ ControlBytesReplaced(Tail(message), Drop(out, 1))
        ELSE IF b < 32
        THEN BeginsWith(out, Escape(b)) /\ ControlBytesReplaced(Tail(message), Drop(out, 4))
        ELSE \/ BeginsWith(out, <<b>>) /\ ControlBytesReplaced(Tail(message), Drop(out, 1))
             \/ BeginsWith(out, Escape(b)) /\ ControlBytesReplaced(Tail(message), Drop(out, 4))

\* The last call was a log call that passed the gate with cleaning enabled.
LoggedCleaned ==
    /\ last.op = "log"
    /\ clean_message_
    /\ accepted # <<>>

\* C20: with message cleaning enabled every byte 9, 10, 11, 12 or 13 of the
\* logged message is replaced by exactly one space and every other byte
\* below 32, NUL included, by the four characters \xHH, HH its value in two
\* uppercase hex digits.
C20_ControlBytesCleaned ==
    LoggedCleaned =>
        ControlBytesReplaced(last.format, accepted[Len(accepted)].message)

\* log("\xC3\n") with cleaning enabled has stored the two bytes as they
\* were: the newline went through as the second byte of a two-byte unit.
C20_Witness ==
    /\ LoggedCleaned
    /\ last.format = <<195, 10>>
    /\ accepted[Len(accepted)].message = <<195, 10>>

\* Bytes that belong to the sequence a lead byte b opens, after b itself;
\* 0 for a byte that opens none.
Follows(b) ==
    IF b \in 192..223 THEN 1
    ELSE IF b \in 224..239 THEN 2
    ELSE IF b \in 240..247 THEN 3
    ELSE 0

RECURSIVE UnicodeKept(_, _, _)
\* out is message with every byte 32..127 kept, every lead byte that has
\* the bytes of its sequence after it copied together with them, and every
\* lead byte that has too few escaped; a byte from 128 up that opens no
\* sequence is escaped if stray_escaped and kept otherwise. A control byte
\* outside a sequence is a space or its escape.
UnicodeKept(message, out, stray_escaped) ==
    IF message = <<>> THEN out = <<>>
    ELSE LET b == Head(message) IN
        IF b < 32
        THEN \/ BeginsWith(out, <<32>>)
                    /\ UnicodeKept(Tail(message), Drop(out, 1), stray_escaped)
             \/ BeginsWith(out, Escape(b))
                    /\ UnicodeKept(Tail(message), Drop(out, 4), stray_escaped)
        ELSE IF b < 128
        THEN BeginsWith(out, <<b>>)
                 /\ UnicodeKept(Tail(message), Drop(out, 1), stray_escaped)
        ELSE IF Follows(b) > 0 /\ Follows(b) < Len(message)
        THEN BeginsWith(out, SubSeq(message, 1, Follows(b) + 1))
                 /\ UnicodeKept(Drop(message, Follows(b) + 1),
                                Drop(out, Follows(b) + 1), stray_escaped)
        ELSE IF Follows(b) > 0 \/ stray_escaped
        THEN BeginsWith(out, Escape(b))
                 /\ UnicodeKept(Tail(message), Drop(out, 4), stray_escaped)
        ELSE BeginsWith(out, <<b>>)
                 /\ UnicodeKept(Tail(message), Drop(out, 1), stray_escaped)

\* C21 as stated: with message cleaning enabled the bytes from 32 up are
\* passed through unmodified, a complete 2-, 3- or 4-byte sequence is copied
\* as a whole, and the only bytes from 32 up that are altered are lead bytes
\* with too few bytes after them, which are hex-escaped.
C21_OnlyShortLeadBytesAltered ==
    LoggedCleaned =>
        UnicodeKept(last.format, accepted[Len(accepted)].message, FALSE)

\* C21, amended: as above, and a byte from 128 up that opens no sequence (a
\* continuation byte outside a sequence, 0xF8..0xFF) is hex-escaped too.
C21_HighBytes ==
    LoggedCleaned =>
        UnicodeKept(last.format, accepted[Len(accepted)].message, TRUE)

\* log of C3 80 80 E2 with cleaning enabled has stored C3 80 as it was, the
\* second 80 as \x80 and the E2 with nothing after it as \xE2.
C21_Witness ==
    /\ LoggedCleaned
    /\ last.format = <<195, 128, 128, 226>>
    /\ accepted[Len(accepted)].message = <<195, 128>> \o Escape(128) \o Escape(226)

(* ------------------- properties of the default level ----------------- *)

\* This step recorded a message of level last'.level: one more accepted
\* entry, one more buffer entry of that level if the buffer is enabled, and
\* one handleNewMessage of that level for each observer, in list order.
RecordedStep ==
    /\ Len(accepted') = Len(accepted) + 1
    /\ accepted'[Len(accepted')].level = last'.level
    /\ buffer_enabled_ =>
           /\ Len(buffer_'.entries_) = Len(buffer_.entries_) + 1
           /\ SubSeq(buffer_'.entries_, 1, Len(buffer_.entries_)) = buffer_.entries_
           /\ buffer_'.entries_[Len(buffer_'.entries_)].level = last'.level
    /\ Len(callbacks') = Len(callbacks) + Len(observers_)
    /\ SubSeq(callbacks', 1, Len(callbacks)) = callbacks
    /\ \A i \in 1..Len(observers_) :
           LET c == callbacks'[Len(callbacks) + i]
           IN  /\ c.observer = observers_[i]
               /\ c.kind = "handleNewMessage"
               /\ c.arg.level = last'.level

\* This step left no trace in any sink.
DroppedStep == UNCHANGED <<accepted, buffer_, callbacks, console>>

ConsoleWriters ==
    {t \in Threads : pc[t] \in {"console_line", "console_newline", "flush_endl"}}

\* Where the line of call j of thread t is in the console output.
PrintedAt(t, j) ==
    {i \in 1..Len(console) :
        /\ console[i].kind = "line"
        /\ console[i].text[Len(console[i].text)] = ThreadMessage(t, j)}

\* C23: threads logging concurrently to one logger with the console enabled
\* produce one console line per accepted call, T*M lines for T threads of M
\* calls, and each line is written as a whole: between a line's text and
\* its "\n" nothing of another line and no line terminator of a flush is
\* written, and no two threads are writing at the same time.
C23_ConsoleLinesAtomic ==
    /\ Cardinality(ConsoleWriters) <= 1
    /\ \A i \in 1..Len(console) :
           /\ console[i].kind = "line" =>
                  IF i < Len(console)
                  THEN console[i + 1].kind = "\n"
                  ELSE \E t \in Threads :
                           /\ pc[t] = "console_newline"
                           /\ console[i].text = formatted_message(loc[t].entry)
           /\ console[i].kind = "\n" => (i > 1 /\ console[i - 1].kind = "line")
    /\ \A t \in Threads : \A j \in Calls(t) :
           (issued[t][j].op = "log" /\ Returned(t, j)) =>
               Cardinality(PrintedAt(t, j)) = 1
    /\ (\A t \in Threads : pc[t] = "idle") =>
           Cardinality({i \in 1..Len(console) : console[i].kind = "line"}) =
               Cardinality({c \in Threads \X (1..MaxCalls) :
                               /\ c[2] \in Calls(c[1])
                               /\ issued[c[1]][c[2]].op = "log"})

\* Both threads have made all their calls, each of them a log call, and
\* the console holds one whole line for each.
C23_Witness ==
    /\ \A t \in Threads :
           /\ pc[t] = "idle"
           /\ Len(issued[t]) = MaxCalls
           /\ \A j \in Calls(t) : issued[t][j].op = "log"
    /\ Len(console) = 2 * Cardinality(Threads) * MaxCalls
    /\ console[1].text[Len(console[1].text)] = ThreadMessage(2, 1)

(* ------------------- properties of the notification pass ------------- *)

\* The handles that were handed entry, in the order of the calls.
DeliveredTo(entry) ==
    LET got == SelectSeq(callbacks,
                   LAMBDA c : c.kind = "handleNewMessage" /\ c.arg = entry)
    IN  [k \in 1..Len(got) |-> got[k].observer]

\* The threads inside add_observer, remove_observer or a notification pass.
InObserverSection ==
    {t \in Threads : pc[t] \in {"notify", "observers_push_back", "handle_registered",
                                "observers_find", "handle_unregistered",
                                "observers_erase"}}

\* C24: however log calls interleave with add_observer and remove_observer,
\* the notification pass of a log call is atomic: the observer list does not
\* change from the pass's first callback to its last, no add or remove is
\* under way during it, and the pass hands the call's entry once to each
\* element of that list, in list order, none twice and none left out.
C24_NotificationPassAtomic ==
    /\ [](Cardinality(InObserverSection) <= 1)
    /\ [](\A t \in Threads :
            pc[t] = "notify" =>
                /\ loc[t].i <= Len(observers_) + 1
                /\ DeliveredTo(loc[t].entry) = SubSeq(observers_, 1, loc[t].i - 1))
    /\ [][\A t \in Threads :
            /\ pc[t] = "notify" => observers_' = observers_
            /\ (pc[t] = "notify" /\ pc'[t] = "idle") =>
                   DeliveredTo(loc[t].entry) = observers_]_vars

\* One thread added A and then B; the other thread's log call made its pass
\* between the two: its entry went to A alone.
C24_Witness ==
    \E t, u \in Threads :
        /\ pc[t] = "idle" /\ pc[u] = "idle"
        /\ Len(issued[t]) = 1 /\ issued[t][1].op = "log"
        /\ Len(issued[u]) = 2
        /\ observers_ = <<"A", "B">>
        /\ Len(callbacks) = 3
        /\ callbacks[1].kind = "handleRegistered" /\ callbacks[1].observer = "A"
        /\ callbacks[2].kind = "handleNewMessage" /\ callbacks[2].observer = "A"
        /\ callbacks[3].kind = "handleRegistered" /\ callbacks[3].observer = "B"

(* ------------------- properties of the buffer toggles ----------------- *)

\* Thread t's log call found the buffer sink enabled and has not yet left
\* the buffer section.
Appending(t) == pc[t] \in {"buffer_lock", "add_lock", "add_evict", "add_push_back"}

\* C28: however a log call interleaves with enable_buffer and
\* disable_buffer, once the call has found the buffer sink enabled the
\* LogBuffer is there and stays the same object until the entry is
\* appended: the call never meets a buffer that is absent, replaced or
\* destroyed, and never fails on one.
C28_ToggleNeverHalfApplied ==
    \A t \in Threads :
        /\ Appending(t) => buffer_ # NULL
        /\ pc[t] \in {"add_evict", "add_push_back"} => add_alive(t)
        /\ pc[t] # "crashed"

\* A log call is about to call buffer_->add after the other thread's
\* disable_buffer has reset the pointer.
C28_Witness ==
    \E t, u \in Threads :
        /\ pc[t] = "add_lock"
        /\ buffer_ = NULL
        /\ pc[u] = "idle"
        /\ Len(issued[u]) = 2 /\ issued[u][2].op = "disable_buffer"

(* ------------------- properties of iteration over the buffer ---------- *)

\* Thread t is inside a loop from cbegin() to cend().
Iterating(t) == pc[t] \in {"iterate_test", "iterate_read"}

\* C27: a forward iteration from cbegin() to cend() that runs while other
\* threads log observes a consistent snapshot: the entries its iterator
\* ranges over are never erased or moved under it, it never fails, and what
\* it visits are entries of the buffer in insertion order.
C27_IterationSnapshot ==
    \A t \in Threads :
        /\ Iterating(t) => IsPrefix(loc[t].result, buffer_.entries_)
        /\ pc[t] # "crashed"
        /\ (Iterating(t) \/ pc[t] = "idle") =>
               \A i, j \in 1..Len(loc[t].args) :
                   i < j => loc[t].args[i].timestamp < loc[t].args[j].timestamp

\* A loop has visited the first of two entries of a buffer of capacity 2,
\* and a third log call has erased that entry from under the iterator.
C27_Witness ==
    \E t \in Threads :
        /\ pc[t] = "iterate_test"
        /\ loc[t].it = 2
        /\ buffer_.capacity_ = 2
        /\ Len(loc[t].result) = 2
        /\ Len(buffer_.entries_) = 2
        /\ buffer_.entries_[1] = loc[t].result[2]

(* ------------------- properties of termination ------------------------ *)

\* No mutex of the logger or its buffer is held.
AllUnlocked ==
    /\ \A name \in DOMAIN mutexes : mutexes[name] = 0
    /\ buffer_.mutex_ = 0

\* C25: a call always runs to completion: however threads interleave level
\* methods, flush, add_observer, remove_observer, enable_buffer,
\* disable_buffer, clear_buffer, buffer() and the console toggles on one
\* logger, every call that has started returns in the end, and when no call
\* is under way no mutex is held, so that no call waits for ever.
C25_CallsReturn ==
    /\ \A t \in Threads : (pc[t] # "idle") ~> (pc[t] = "idle")
    /\ []((\A t \in Threads : pc[t] = "idle") => AllUnlocked)

\* A log call met a reset buffer_ and stopped for good, buffer_mutex_ held.
C25_Witness ==
    \E t, u \in Threads :
        /\ pc[t] = "crashed"
        /\ mutexes["buffer_mutex_"] = t
        /\ pc[u] = "idle"
        /\ Len(issued[u]) = 1 /\ issued[u][1].op = "disable_buffer"

(* ------------------- properties of observers that throw --------------- *)

\* entry was handed to handleNewMessage of observer, as of the next state.
Handed(observer, entry) ==
    \E i \in 1..Len(callbacks') :
        /\ callbacks'[i].observer = observer
        /\ callbacks'[i].kind = "handleNewMessage"
        /\ callbacks'[i].arg = entry

\* C26: an exception in one observer's handleNewMessage does not keep the
\* other observers from being notified: when the log call ends, every
\* registered observer has been handed the call's entry; and the logger's
\* mutexes are released, so that later log calls proceed.
C26_ObserverFailureIsolated ==
    /\ [][\A t \in Threads :
            (pc[t] = "notify" /\ pc'[t] = "idle") =>
                \A k \in 1..Len(observers_) : Handed(observers_[k], loc[t].entry)]_vars
    /\ []((\A t \in Threads : pc[t] = "idle") => AllUnlocked)

\* B, which throws, was registered before A; a log call has ended with B's
\* exception and A was not notified; no mutex is held.
C26_Witness ==
    /\ observers_ = <<"B", "A">>
    /\ \A t \in Threads : pc[t] = "idle"
    /\ AllUnlocked
    /\ Len(callbacks) = 3
    /\ callbacks[3].kind = "handleNewMessage" /\ callbacks[3].observer = "B"
    /\ \E t \in Threads : Len(issued[t]) = 1 /\ issued[t][1].op = "log"

(* ------------------- properties of the observer list ------------------ *)

\* obs without its earliest occurrence of observer.
WithoutEarliest(obs, observer) ==
    LET first == CHOOSE i \in 1..Len(obs) :
                     obs[i] = observer /\ \A j \in 1..(i - 1) : obs[j] # observer
    IN  [k \in 1..(Len(obs) - 1) |-> IF k < first THEN obs[k] ELSE obs[k + 1]]

\* C29: for every handle h the number of occurrences of h in the observer
\* list is the number of handleRegistered calls minus the number of
\* handleUnregistered calls the logger has made on h, and an accepted log
\* call hands its entry to h that many times; add_observer of a registered
\* handle adds one more occurrence at the end, remove_observer removes the
\* earliest occurrence and no other, and remove_observer of a handle that
\* is not registered makes no callback and changes nothing.
C29_ObserverMultiset ==
    /\ [](\A h \in Handles :
            Occurrences(observers_, h) =
                Received(callbacks, h, "handleRegistered")
                    - Received(callbacks, h, "handleUnregistered"))
    /\ [][\A h \in Handles :
            /\ (Called("log") /\ ~GateRejects(last'.level, log_level_)) =>
                   Received(NewCallbacks, h, "handleNewMessage") = Occurrences(observers_, h)
            /\ (Called("add_observer") /\ last'.observer = h) =>
                   observers_' = Append(observers_, h)
            /\ (Called("remove_observer") /\ last'.observer = h) =>
                   IF Occurrences(observers_, h) > 0
                   THEN observers_' = WithoutEarliest(observers_, h)
                   ELSE UNCHANGED <<logger_vars, world_vars>>]_vars

\* A, B and A again were added and remove_observer(A) took the first A away.
C29_Witness ==
    /\ last.op = "remove_observer" /\ last.observer = "A"
    /\ observers_ = <<"B", "A">>
    /\ Received(callbacks, "A", "handleRegistered") = 2
    /\ Received(callbacks, "A", "handleUnregistered") = 1

(* --------------- properties of the entry of one log call -------------- *)

\* The entry the buffer took during the step.
Stored == buffer_'.entries_[Len(buffer_'.entries_)]

\* C30: an accepted log call puts into the buffer and hands to every
\* observer entries with the same level, logger name and message; the
\* message is the cleaned text when cleaning is enabled and the text as
\* written when it is disabled, and it is the message alone, without the
\* time, level and name segments of the printed line.
C30_SameEntryEverywhere ==
    [][(Called("log") /\ ~GateRejects(last'.level, log_level_)) =>
          LET expected == IF clean_message_ THEN clean_message(last'.format)
                          ELSE last'.format
              Same(entry) == /\ entry.level = last'.level
                             /\ entry.logger_name = name_
                             /\ entry.message = expected
                             /\ Len(entry.message) = Len(expected)
          IN  /\ Len(NewCallbacks) = Len(observers_)
              /\ \A i \in 1..Len(NewCallbacks) :
                    /\ NewCallbacks[i].kind = "handleNewMessage"
                    /\ Same(NewCallbacks[i].arg)
              /\ (buffer_enabled_ /\ buffer_ # NULL) =>
                    /\ Len(buffer_'.entries_) = Len(buffer_.entries_) + 1
                    /\ Same(Stored)
                    /\ \A i \in 1..Len(NewCallbacks) : NewCallbacks[i].arg = Stored]_vars

\* With cleaning disabled, a buffer and an observer, info("\tb") was stored
\* and handed over with its tab.
C30_Witness ==
    /\ last.op = "log" /\ last.format = <<9, 98>>
    /\ ~clean_message_
    /\ buffer_enabled_ /\ buffer_ # NULL /\ Len(buffer_.entries_) = 1
    /\ buffer_.entries_[1].message = <<9, 98>>
    /\ Len(callbacks) > 0
    /\ callbacks[Len(callbacks)].kind = "handleNewMessage"
    /\ callbacks[Len(callbacks)].arg = buffer_.entries_[1]

(* ------------------ properties of the sanitized message --------------- *)

\* C35: with message cleaning enabled the message a log call stores has no
\* byte below 32, whatever bytes the caller's message was made of, a lead
\* byte directly followed by a control byte included.
C35_NoControlByteLeft ==
    LoggedCleaned =>
        \A i \in 1..Len(accepted[Len(accepted)].message) :
            accepted[Len(accepted)].message[i] >= 32

\* log("a\xC3\t") with cleaning enabled has stored the tab as the second
\* byte of the two-byte unit the lead byte opened.
C35_Witness ==
    /\ LoggedCleaned
    /\ last.format = <<97, 195, 9>>
    /\ accepted[Len(accepted)].message = <<97, 195, 9>>

(* ------------------ properties of inserted argument text -------------- *)

RECURSIVE CountFrom(_, _, _)
\* How often tok stands in s from index i on, read left to right.
CountFrom(s, i, tok) ==
    IF i > Len(s) THEN 0
    ELSE IF StartsAt(s, i, tok) THEN 1 + CountFrom(s, i + Len(tok), tok)
    ELSE CountFrom(s, i + 1, tok)

\* Some argument text that format inserts holds a {M} that a later scan
\* looks for: the text went in for a {?}, or for a {N} with N below M.
Rereads(f, texts) ==
    \E k \in 1..Len(texts), M \in 0..(Len(texts) - 1) :
        /\ Occurs(texts[k], Slot(M))
        /\ \/ k <= CountFrom(f, 1, AnonymousSlot)
           \/ Occurs(f, Slot(k - 1)) /\ M > k - 1

\* C36: text that format inserts for an argument is never itself expanded:
\* the result is the template read once, each {?} and each {N} giving way
\* to its argument's text, {?} and {N} inside that text left as they are.
C36_InsertedTextVerbatim ==
    \A t \in Threads :
        FormatDone(t) =>
            loc[t].result = ExpectedFrom(loc[t].format, 1, arg_strings(t), 1)

\* The result is the template read once unless inserted text holds a {M}
\* that a later scan looks for: {?} in inserted text, {M} in text inserted
\* for {N} with N >= M, and {M} with no argument M stay as they are.
C36_VerbatimUnlessReread ==
    \A t \in Threads :
        (FormatDone(t) /\ ~Rereads(loc[t].format, arg_strings(t))) =>
            loc[t].result = ExpectedFrom(loc[t].format, 1, arg_strings(t), 1)

\* format("{?}{1}", "{?}", "{0}") has returned "{?}{0}": the {?} that went
\* in for {?} and the {0} that went in for {1} stand as they are.
C36_Witness ==
    /\ FormatDone(1)
    /\ loc[1].format = AnonymousSlot \o Slot(1)
    /\ arg_strings(1) = <<AnonymousSlot, Slot(0)>>
    /\ loc[1].result = AnonymousSlot \o Slot(0)

(* ------------------------ termination of format ----------------------- *)

\* Thread t's step replaced a placeholder and stayed in its scan.
Replaced(t) ==
    /\ pc[t] \in {"anonymous", "positional_scan"}
    /\ pc'[t] = pc[t]
    /\ loc'[t] # loc[t]

\* The text the scan of thread t inserts next.
Inserting(t) ==
    IF pc[t] = "anonymous" THEN arg_strings(t)[loc[t].arg_index + 1]
    ELSE arg_strings(t)[loc[t].i + 1]

\* What the scan of thread t has still to read.
Unread(result, pos) == SubSeq(result, pos + 1, Len(result))

\* C37: format returns for every template and argument list, empty
\* arguments and arguments that read {?} or their own {i} included: each
\* replacement leaves the scan position just behind the inserted text and
\* less of the string to read than before, all of it text that was there
\* before the replacement, so a scan replaces no placeholder twice.
C37_FormatTerminates ==
    /\ \A t \in Threads : (pc[t] = "format") ~> FormatDone(t)
    /\ [][\A t \in Threads :
            Replaced(t) =>
                /\ loc'[t].pos >= Len(Inserting(t))
                /\ SubSeq(loc'[t].result, loc'[t].pos - Len(Inserting(t)) + 1,
                          loc'[t].pos) = Inserting(t)
                /\ Len(Unread(loc'[t].result, loc'[t].pos))
                       < Len(Unread(loc[t].result, loc[t].pos))
                /\ \E n \in 0..Len(loc[t].result) :
                       Unread(loc'[t].result, loc'[t].pos) = Unread(loc[t].result, n)]_vars

\* format("{0}{1}", "{0}", "") has returned "{0}": the {0} that went in for
\* {0} was not read again and the empty text ended the scan for {1}.
C37_Witness ==
    /\ FormatDone(1)
    /\ loc[1].format = Slot(0) \o Slot(1)
    /\ arg_strings(1) = <<Slot(0), <<>>>>
    /\ loc[1].result = Slot(0)

(* --------------------- properties of entry timestamps ----------------- *)

\* The thread whose call made the entry: the digit in "t<t>m<j>".
WrittenBy(entry) == entry.message[2] - 48

\* C31: the entries of the buffer are in chronological order, also while
\* several threads log to the logger: no entry has a timestamp earlier than
\* the entry before it.
C31_Chronological ==
    \A i \in 1..(Len(buffer_.entries_) - 1) :
        buffer_.entries_[i].timestamp <= buffer_.entries_[i + 1].timestamp

\* The entries of each thread are in chronological order among themselves:
\* of two entries written by the same thread the later-positioned one has
\* the later timestamp.
C31_ChronologicalPerThread ==
    \A i \in 1..Len(buffer_.entries_), j \in 1..Len(buffer_.entries_) :
        (i < j /\ WrittenBy(buffer_.entries_[i]) = WrittenBy(buffer_.entries_[j])) =>
            buffer_.entries_[i].timestamp < buffer_.entries_[j].timestamp

\* Thread 2 stamped its entry after thread 1 and added it first; both
\* entries of thread 1 follow it in their own order.
C31_Witness ==
    /\ Len(buffer_.entries_) = 3
    /\ WrittenBy(buffer_.entries_[1]) = 2
    /\ WrittenBy(buffer_.entries_[2]) = 1
    /\ WrittenBy(buffer_.entries_[3]) = 1
    /\ buffer_.entries_[1].timestamp > buffer_.entries_[2].timestamp
    /\ buffer_.entries_[2].timestamp < buffer_.entries_[3].timestamp

(* ---------------- properties of calls made from callbacks ------------ *)

\* C32: a call on the logger made from within one of its own observer
\* callbacks is safe: the outer call still comes to its end, and the
\* observer list stays as it is while a notification pass goes over it.
C32_ReentrantCallsReturn ==
    /\ \A t \in Threads : (pc[t] # "idle") ~> (pc[t] = "idle")
    /\ [][\A t \in Threads :
            (pc[t] = "notify" /\ pc'[t] = "notify") => observers_' = observers_]_vars

\* Thread 1's log call reached observer B, whose handleNewMessage called
\* the logger: thread 1 waits for the observers lock it holds itself.
C32_Witness ==
    /\ pc[1] = "deadlocked"
    /\ mutexes["observers_mutex_"] = 1
    /\ issued[1][Len(issued[1])].op = "log"
    /\ callbacks[Len(callbacks)] = Callback("B", "handleNewMessage", loc[1].entry)

(* -------------------- properties of the order of sinks ---------------- *)

\* The messages in the order the buffer holds them, the observers were
\* handed them and the console printed them.
BufferOrder == [i \in 1..Len(buffer_.entries_) |-> buffer_.entries_[i].message]

ObserverOrder == [i \in 1..Len(callbacks) |-> callbacks[i].arg.message]

ConsoleOrder ==
    LET lines == SelectSeq(console, LAMBDA chunk : chunk.kind = "line")
    IN  [i \in 1..Len(lines) |-> lines[i].text[4]]

\* a stands before b in order.
Before(order, a, b) ==
    \E i \in 1..Len(order), j \in 1..Len(order) : i < j /\ order[i] = a /\ order[j] = b

\* The messages of the calls the threads have made.
LoggedMessages == {ThreadMessage(t, j) : t \in Threads, j \in 1..MaxCalls}

\* No two of the messages stand one way round in one order and the other
\* way round in the other.
Agree(messages, one, other) ==
    \A a \in messages, b \in messages : ~(Before(one, a, b) /\ Before(other, b, a))

\* C33: for any two accepted log calls made concurrently by different
\* threads the buffer, each observer and the console have the two entries
\* in the same relative order.
C33_SinksAgree ==
    /\ Agree(LoggedMessages, BufferOrder, ObserverOrder)
    /\ Agree(LoggedMessages, ConsoleOrder, BufferOrder)
    /\ Agree(LoggedMessages, ConsoleOrder, ObserverOrder)

\* The sinks agree on the order of the messages of each thread, which is
\* the order of the thread's calls.
C33_SinksAgreePerThread ==
    \A t \in Threads, j \in 1..MaxCalls, k \in 1..MaxCalls :
        (\/ Before(BufferOrder, ThreadMessage(t, j), ThreadMessage(t, k))
         \/ Before(ObserverOrder, ThreadMessage(t, j), ThreadMessage(t, k))
         \/ Before(ConsoleOrder, ThreadMessage(t, j), ThreadMessage(t, k))) => j < k

\* Thread 1 printed its line first and thread 2 was first at the buffer and
\* at the observer; then thread 1 logged again.
C33_Witness ==
    /\ ConsoleOrder = <<ThreadMessage(1, 1), ThreadMessage(2, 1), ThreadMessage(1, 2)>>
    /\ BufferOrder = <<ThreadMessage(2, 1), ThreadMessage(1, 1), ThreadMessage(1, 2)>>
    /\ ObserverOrder = <<ThreadMessage(2, 1), ThreadMessage(1, 1), ThreadMessage(1, 2)>>

(* ------------------ properties of the threshold under race ------------ *)

\* The j-th call of thread t is a log call that has returned.
LogReturned(t, j) ==
    /\ j <= Len(issued[t])
    /\ issued[t][j].op = "log"
    /\ j < Len(issued[t]) \/ pc[t] = "idle"

\* message is in the order.
Holds(order, message) == \E i \in 1..Len(order) : order[i] = message

\* C34: a log call reads the threshold once, so a set_log_level racing
\* with it cannot split it: with console, buffer and observer list fixed,
\* the entry of a call that has returned is on the console, in the buffer
\* and with the observer, or in none of the three; and a call past its
\* gate returns only with its entry handed over, whatever the threshold
\* has become.
C34_LevelReadOnce ==
    /\ [](\A t \in Threads, j \in 1..MaxCalls :
            LogReturned(t, j) =>
                /\ Holds(ConsoleOrder, ThreadMessage(t, j))
                       <=> Holds(BufferOrder, ThreadMessage(t, j))
                /\ Holds(BufferOrder, ThreadMessage(t, j))
                       <=> Holds(ObserverOrder, ThreadMessage(t, j)))
    /\ [][\A t \in Threads :
            (pc[t] # "idle" /\ pc'[t] = "idle") =>
                Holds(ObserverOrder', loc[t].entry.message)]_vars

\* Thread 2 set the threshold to OFF while thread 1's info() was past its
\* gate: the call has returned and its entry is in all three sinks.
C34_Witness ==
    /\ log_level_ = OFF
    /\ LogReturned(1, 1)
    /\ issued[2] = <<[op |-> "set_log_level", level |-> OFF, arg |-> ""]>>
    /\ ConsoleOrder = <<ThreadMessage(1, 1)>>
    /\ BufferOrder = <<ThreadMessage(1, 1)>>
    /\ ObserverOrder = <<ThreadMessage(1, 1)>>

(* ----------------- properties of the console of two loggers ---------- *)

\* The threads that are between the two insertions of a line, or about to
\* make the first, through either logger.
LineWriters ==
    {t \in Threads : pc[t] \in {"console_line", "console_newline",
                                "global_console_line", "global_console_newline"}}

\* C38: when threads log through two different loggers with their consoles
\* enabled, each line on std::cout is followed by its own line terminator
\* before anything of another line is written, and no two threads are
\* writing a line at the same time.
C38_LinesAtomicAcrossLoggers ==
    /\ Cardinality(LineWriters) <= 1
    /\ \A i \in 1..Len(console) :
           console[i].kind = "line" =>
               IF i < Len(console)
               THEN console[i + 1].kind = "\n"
               ELSE \E t \in LineWriters :
                        console[i].text = formatted_message(loc[t].entry)

\* Thread 1 wrote its line through the logger "app", thread 2 wrote its
\* line through the global logger, and neither line terminator is out yet.
C38_Witness ==
    /\ Len(console) = 2
    /\ console[1] = Chunk("line", formatted_message(loc[1].entry))
    /\ console[2] = Chunk("line", formatted_message(loc[2].entry))
    /\ loc[1].entry.logger_name = name_
    /\ loc[2].entry.logger_name = ""
    /\ pc[1] = "console_newline"
    /\ pc[2] = "global_console_newline"

(* ------------------ properties of the returned pointer ---------------- *)

\* C39: a pointer returned by buffer() refers to no destroyed LogBuffer
\* when the caller reads through it: at every size() or empty() through the
\* pointer the LogBuffer it was returned for is still the logger's buffer,
\* neither reset by disable_buffer nor replaced by enable_buffer.
C39_PointerNeverDangles ==
    [][\A t \in Threads :
          (pc[t] = "pointer_size" /\ pc'[t] # "pointer_size") => add_alive(t)]_vars

\* Thread 1 holds the pointer buffer() returned for the first LogBuffer and
\* is about to call size() through it; thread 2's disable_buffer has reset
\* buffer_ and returned.
C39_Witness ==
    /\ pc[1] = "pointer_size"
    /\ loc[1].buf = 1
    /\ buffer_ = NULL
    /\ pc[2] = "idle"
    /\ issued[2] = <<[op |-> "disable_buffer", level |-> OFF, arg |-> ""]>>

====
